---- MODULE Spec2Model ----
(***************************************************************************)
(* Model of the Excel File Comparison Tool (class ExcelComparator).        *)
(*                                                                         *)
(* JavaScript values are tagged records:                                   *)
(*   number  [t |-> "num", i, f]  the decimal i + f * 10^-9, 0 <= f < 10^9 *)
(*   NaN     [t |-> "nan"]                                                 *)
(*   string  [t |-> "str", s]     s a sequence of characters               *)
(*   null / undefined             [t |-> "null"] / [t |-> "undef"]         *)
(* Numbers are exact decimals with nine fractional digits, which is enough *)
(* to tell 1e-6 from 1e-6 + 1e-9; binary rounding of IEEE doubles is not   *)
(* modelled.                                                               *)
(*                                                                         *)
(* A function of the source is translated as a chain of definitions, each  *)
(* handing the values it computed to the next as arguments, so that every  *)
(* intermediate value of the source is written, and evaluated, once.       *)
(***************************************************************************)
EXTENDS Integers, Sequences, FiniteSets, TLC

(***************************************************************************)
(* Numbers                                                                 *)
(***************************************************************************)
\* One unit of the integer part, in units of the fraction field (10^-9).
Giga == 1000 * 1000 * 1000

Val(t, i, f, s) == [t |-> t, i |-> i, f |-> f, s |-> s]
Num(i, f) == Val("num", i, f, <<>>)
NaNV == Val("nan", 0, 0, <<>>)
NullV == Val("null", 0, 0, <<>>)
Undef == Val("undef", 0, 0, <<>>)
Str(s) == Val("str", 0, 0, s)
EmptyStr == Str(<<>>)

IsNum(v) == v.t = "num"
IsStr(v) == v.t = "str"

\* typeof value === 'number' (NaN is a number too)
TypeofNumber(v) == v.t \in {"num", "nan"}

Neg(a) ==
    IF a.t # "num" THEN NaNV
    ELSE IF a.f = 0 THEN Num(0 - a.i, 0) ELSE Num(0 - a.i - 1, Giga - a.f)

Sub(a, b) ==
    IF a.t # "num" \/ b.t # "num" THEN NaNV
    ELSE IF a.f >= b.f THEN Num(a.i - b.i, a.f - b.f)
    ELSE Num(a.i - b.i - 1, a.f - b.f + Giga)

IsNegative(a) == a.t = "num" /\ a.i < 0

\* Math.abs
MathAbs(a) == IF IsNegative(a) THEN Neg(a) ELSE a

\* a > b, a >= b, a <= b on numbers; every comparison with NaN is false
Gt(a, b) == /\ a.t = "num" /\ b.t = "num"
            /\ (a.i > b.i \/ (a.i = b.i /\ a.f > b.f))
Ge(a, b) == /\ a.t = "num" /\ b.t = "num"
            /\ (a.i > b.i \/ (a.i = b.i /\ a.f >= b.f))
Le(a, b) == Ge(b, a)

\* value * 100
Times100(a) ==
    IF a.t # "num" THEN NaNV
    ELSE Num(a.i * 100 + (a.f \div 10000000), (a.f % 10000000) * 100)

Zero == Num(0, 0)
One == Num(1, 0)

\* CONFIG.NUMERIC_EPSILON = 0.000001
NUMERIC_EPSILON == Num(0, 1000)

\* a === b (strict equality: NaN equals nothing, not even itself)
StrictEq(a, b) == a.t # "nan" /\ b.t # "nan" /\ a = b

(***************************************************************************)
(* Strings: sequences of characters                                        *)
(***************************************************************************)
DigitChars == <<"0", "1", "2", "3", "4", "5", "6", "7", "8", "9">>
Digits == {DigitChars[k] : k \in 1..10}
IsDigit(c) == c \in Digits
DigitVal(c) == (CHOOSE k \in 1..10 : DigitChars[k] = c) - 1
Digit(d) == DigitChars[d + 1]
IsSpace(c) == c = " "

RECURSIVE Pow10(_)
Pow10(k) == IF k = 0 THEN 1 ELSE 10 * Pow10(k - 1)

\* Number of leading / trailing white-space characters of s
RECURSIVE LeadSpaces(_)
LeadSpaces(s) ==
    IF s = <<>> \/ ~IsSpace(Head(s)) THEN 0 ELSE 1 + LeadSpaces(Tail(s))

RECURSIVE TrailSpaces(_)
TrailSpaces(s) ==
    IF s = <<>> \/ ~IsSpace(s[Len(s)]) THEN 0
    ELSE 1 + TrailSpaces(SubSeq(s, 1, Len(s) - 1))

\* s without its first lead and its last trail characters
TrimAt(s, lead, trail) ==
    IF lead = Len(s) THEN <<>> ELSE SubSeq(s, lead + 1, Len(s) - trail)

\* String.prototype.trim
Trim(s) == TrimAt(s, LeadSpaces(s), TrailSpaces(s))

\* s.endsWith(c) for a one-character c
EndsWith(s, c) == s # <<>> /\ s[Len(s)] = c

\* s.slice(0, -1)
DropLast(s) == IF s = <<>> THEN <<>> ELSE SubSeq(s, 1, Len(s) - 1)

\* s.includes(c) for a one-character c
Includes(s, c) == \E k \in 1..Len(s) : s[k] = c

\* s.replace(/,/g, '')
RECURSIVE RemoveCommas(_)
RemoveCommas(s) ==
    IF s = <<>> THEN <<>>
    ELSE IF Head(s) = "," THEN RemoveCommas(Tail(s))
    ELSE <<Head(s)>> \o RemoveCommas(Tail(s))

\* Number of leading digits of s
RECURSIVE LeadDigits(_)
LeadDigits(s) ==
    IF s = <<>> \/ ~IsDigit(Head(s)) THEN 0 ELSE 1 + LeadDigits(Tail(s))

\* The integer a digit string denotes
RECURSIVE DigitsToInt(_)
DigitsToInt(s) ==
    IF s = <<>> THEN 0
    ELSE DigitsToInt(SubSeq(s, 1, Len(s) - 1)) * 10 + DigitVal(s[Len(s)])

\* The fraction a digit string after the point denotes, in units of 10^-9
RECURSIVE DigitsToFrac(_, _)
DigitsToFrac(s, k) ==
    IF s = <<>> \/ k > 9 THEN 0
    ELSE DigitVal(Head(s)) * Pow10(9 - k) + DigitsToFrac(Tail(s), k + 1)

\* The longest prefix of s (which has no leading white space) that is a
\* StrDecimalLiteral without exponent: [+-] digits [. digits] | [+-] . digits.
\* ScanDecimal returns the characters consumed (0 when there is no such
\* prefix) and the value; the steps below hand it from the sign (offset
\* characters) over the n1 integer digits and the point to the n2 fraction
\* digits.
ScanResult(negative, offset, body, n1, dot, n2) ==
    IF n1 = 0 /\ n2 = 0 THEN [len |-> 0, val |-> NaNV]
    ELSE [len |-> offset + n1 + (IF dot THEN 1 + n2 ELSE 0),
          val |-> IF negative
                  THEN Neg(Num(DigitsToInt(SubSeq(body, 1, n1)),
                               DigitsToFrac(SubSeq(body, n1 + 2, n1 + 1 + n2), 1)))
                  ELSE Num(DigitsToInt(SubSeq(body, 1, n1)),
                           DigitsToFrac(SubSeq(body, n1 + 2, n1 + 1 + n2), 1))]

ScanFraction(negative, offset, body, n1, dot) ==
    ScanResult(negative, offset, body, n1, dot,
               IF dot THEN LeadDigits(SubSeq(body, n1 + 2, Len(body))) ELSE 0)

ScanPoint(negative, offset, body, n1) ==
    ScanFraction(negative, offset, body, n1, n1 < Len(body) /\ body[n1 + 1] = ".")

ScanSigned(s, signed) ==
    ScanPoint(signed /\ Head(s) = "-", IF signed THEN 1 ELSE 0,
              IF signed THEN Tail(s) ELSE s,
              LeadDigits(IF signed THEN Tail(s) ELSE s))

ScanDecimal(s) == ScanSigned(s, s # <<>> /\ Head(s) \in {"+", "-"})

\* The value of a trimmed string t that scanned as r: the literal must be all
\* of t
WholeLiteral(t, r) == IF r.len = Len(t) THEN r.val ELSE NaNV

ToNumberTrimmed(t) == IF t = <<>> THEN Zero ELSE WholeLiteral(t, ScanDecimal(t))

\* Number(s), the conversion isNaN applies to a string: white space is
\* trimmed, the empty string is 0, anything but one whole literal is NaN
ToNumber(s) == ToNumberTrimmed(Trim(s))

\* isNaN(s) for a string s
IsNaNStr(s) == ToNumber(s).t = "nan"

\* parseFloat(s): leading white space is skipped, the longest literal prefix
\* is converted, NaN when there is none (the empty string included)
ParseFloat(s) == ScanDecimal(SubSeq(s, LeadSpaces(s) + 1, Len(s))).val

\* The decimal digits of a natural number
RECURSIVE IntDigits(_)
IntDigits(n) ==
    IF n < 10 THEN <<Digit(n)>> ELSE IntDigits(n \div 10) \o <<Digit(n % 10)>>

RECURSIVE StripZeros(_)
StripZeros(s) ==
    IF s # <<>> /\ s[Len(s)] = "0" THEN StripZeros(DropLast(s)) ELSE s

\* The nine fractional digits of f, trailing zeros removed
FracDigits(f) == StripZeros([k \in 1..9 |-> Digit((f \div Pow10(9 - k)) % 10)])

\* Exponent notation of ds * 10^-9 for the digits ds of a number below 1e-6,
\* m being ds without its trailing zeros
ExponentForm(ds, m) ==
    <<Head(m)>> \o (IF Len(m) > 1 THEN <<".">> \o Tail(m) ELSE <<>>)
        \o <<"e", "-">> \o IntDigits(10 - Len(ds))

\* Number.prototype.toString of a non-negative number: plain decimal from
\* 1e-6 up, exponent notation below
MagToString(a) ==
    IF a.i = 0 /\ a.f = 0 THEN <<"0">>
    ELSE IF a.i = 0 /\ a.f < 1000
        THEN ExponentForm(IntDigits(a.f), StripZeros(IntDigits(a.f)))
    ELSE IntDigits(a.i) \o (IF a.f = 0 THEN <<>> ELSE <<".">> \o FracDigits(a.f))

NumToString(a) ==
    IF a.t = "nan" THEN <<"N", "a", "N">>
    ELSE IF IsNegative(a) THEN <<"-">> \o MagToString(Neg(a))
    ELSE MagToString(a)

\* String(value)
ToStr(v) ==
    CASE v.t = "str" -> v.s
      [] v.t \in {"num", "nan"} -> NumToString(v)
      [] v.t = "null" -> <<"n", "u", "l", "l">>
      [] OTHER -> <<"u", "n", "d", "e", "f", "i", "n", "e", "d">>

(***************************************************************************)
(* Value Classifier and Cell Differ                                        *)
(***************************************************************************)
\* The last step of getNumericValue, on cleanValue
NumericOfClean(cleanValue) ==
    IF ~IsNaNStr(cleanValue) THEN ParseFloat(cleanValue) ELSE NullV

\* Variant: a string ending in "%" is not parsed as a number
NumericOfTrimmedWithoutPercent(trimmedValue) ==
    IF trimmedValue = <<>> THEN NullV
    ELSE NumericOfClean(RemoveCommas(trimmedValue))

\* The string branch of getNumericValue, on trimmedValue
NumericOfTrimmed(trimmedValue) ==
    IF trimmedValue = <<>> THEN NullV
    ELSE IF EndsWith(trimmedValue, "%") /\ ~IsNaNStr(DropLast(trimmedValue))
        THEN ParseFloat(DropLast(trimmedValue))
    ELSE NumericOfClean(RemoveCommas(trimmedValue))

\* getNumericValue(value, isPercentage): a number, NaN or null
getNumericValue(value, isPercentage) ==
    IF TypeofNumber(value) THEN
        (IF isPercentage THEN Times100(value) ELSE value)
    ELSE IF IsStr(value) THEN NumericOfTrimmed(Trim(value.s))
    ELSE NullV

\* The string branch of extractPercentageValue, on value.trim()
PercentOfTrimmed(trimmedValue) ==
    IF EndsWith(trimmedValue, "%") /\ ~IsNaNStr(DropLast(trimmedValue))
    THEN ParseFloat(DropLast(trimmedValue))
    ELSE NullV

\* extractPercentageValue(value): a number, NaN or null
extractPercentageValue(value) ==
    IF TypeofNumber(value) /\ Ge(value, Zero) /\ Le(value, One) THEN
        Times100(value)
    ELSE IF IsStr(value) THEN PercentOfTrimmed(Trim(value.s))
    ELSE NullV

\* Variants of the epsilon test: without Math.abs, and with >= for >
ExceedsEpsilonSigned(a, b) == Gt(Sub(a, b), NUMERIC_EPSILON)
ExceedsEpsilonInclusive(a, b) == Ge(MathAbs(Sub(a, b)), NUMERIC_EPSILON)

\* Math.abs(a - b) > CONFIG.NUMERIC_EPSILON
ExceedsEpsilon(a, b) == Gt(MathAbs(Sub(a, b)), NUMERIC_EPSILON)

\* valuesAreDifferent from its third test on: both percentages, else the
\* trimmed strings
PercentVerdict(originalValue, modifiedValue, originalPercent, modifiedPercent) ==
    IF originalPercent # NullV /\ modifiedPercent # NullV
    THEN ExceedsEpsilon(originalPercent, modifiedPercent)
    ELSE Trim(ToStr(originalValue)) # Trim(ToStr(modifiedValue))

\* valuesAreDifferent from its second test on: both numeric
NumericVerdict(originalValue, modifiedValue, originalNumeric, modifiedNumeric) ==
    IF originalNumeric # NullV /\ modifiedNumeric # NullV
    THEN ExceedsEpsilon(originalNumeric, modifiedNumeric)
    ELSE PercentVerdict(originalValue, modifiedValue,
                        extractPercentageValue(originalValue),
                        extractPercentageValue(modifiedValue))

\* valuesAreDifferent(originalValue, modifiedValue)
valuesAreDifferent(originalValue, modifiedValue) ==
    IF StrictEq(originalValue, modifiedValue) THEN FALSE
    ELSE NumericVerdict(originalValue, modifiedValue,
                        getNumericValue(originalValue, FALSE),
                        getNumericValue(modifiedValue, FALSE))

(***************************************************************************)
(* Workbooks                                                               *)
(*                                                                         *)
(* A workbook is [SheetNames, Sheets]; a worksheet is a rectangular grid   *)
(* of cells [v, z] whose range starts at A1 (v the value, z the number     *)
(* format, the empty sequence when the cell has none).  Rows and columns   *)
(* are indexed from 0 as in the source; sequences are indexed from 1.      *)
(***************************************************************************)
Null == [null |-> TRUE]

Cell(v, z) == [v |-> v, z |-> z]

\* XLSX.utils.sheet_to_json(sheet, {header: 1, defval: ''}): the array of
\* rows of cell values
sheet_to_json(sheet) ==
    [r \in 1..Len(sheet) |-> [c \in 1..Len(sheet[r]) |-> sheet[r][c].v]]

\* sheet[cellRef] for the cell at (row, col): the cell object or undefined
CellInfo(sheet, row, col) ==
    IF row + 1 \in 1..Len(sheet) /\ col + 1 \in 1..Len(sheet[row + 1])
    THEN sheet[row + 1][col + 1] ELSE Null

Max(a, b) == IF a >= b THEN a ELSE b

RECURSIVE SeqMax(_)
SeqMax(s) == IF s = <<>> THEN 0 - 1 ELSE Max(Head(s), SeqMax(Tail(s)))

\* Math.max(...data.map(row => row.length)); -1 stands for the -Infinity of
\* an empty array, which the loops treat alike (no column is below it)
MaxRowLength(data) == SeqMax([r \in 1..Len(data) |-> Len(data[r])])

\* maxRows and maxCols of a pair of matrices
BoxRows(originalSheet, modifiedSheet) == Max(Len(originalSheet), Len(modifiedSheet))
BoxCols(originalSheet, modifiedSheet) ==
    Max(MaxRowLength(originalSheet), MaxRowLength(modifiedSheet))

\* data[row] && data[row][col]: undefined when the row or the cell is absent
RawAt(data, row, col) ==
    IF row + 1 \in 1..Len(data) /\ col + 1 \in 1..Len(data[row + 1])
    THEN data[row + 1][col + 1] ELSE Undef

\* JavaScript falsiness of a cell value
Falsy(v) == v.t \in {"undef", "null", "nan"} \/ v = Zero \/ v = EmptyStr

\* x || ''
OrEmpty(v) == IF Falsy(v) THEN EmptyStr ELSE v

\* (originalSheet[row] && originalSheet[row][col]) || ''
originalValueAt(originalSheet, row, col) == OrEmpty(RawAt(originalSheet, row, col))

\* Variant: the modified value read without the `|| ''`
modifiedValueAtUncoerced(modifiedSheet, row, col) == RawAt(modifiedSheet, row, col)

\* (modifiedSheet[row] && modifiedSheet[row][col]) || ''
modifiedValueAt(modifiedSheet, row, col) == OrEmpty(RawAt(modifiedSheet, row, col))

Letters == <<"A", "B", "C", "D", "E", "F", "G", "H", "I", "J", "K", "L", "M",
             "N", "O", "P", "Q", "R", "S", "T", "U", "V", "W", "X", "Y", "Z">>

\* XLSX.utils.encode_col, on the 1-based column number
RECURSIVE EncodeCol(_)
EncodeCol(n) ==
    IF n = 0 THEN <<>>
    ELSE EncodeCol((n - 1) \div 26) \o <<Letters[((n - 1) % 26) + 1]>>

\* XLSX.utils.encode_cell({r: row, c: col})
encode_cell(row, col) == EncodeCol(col + 1) \o IntDigits(row + 1)

(***************************************************************************)
(* Structure Validator                                                     *)
(***************************************************************************)
Message(kind, n1, n2, s1, s2) ==
    [kind |-> kind, n1 |-> n1, n2 |-> n2, s1 |-> s1, s2 |-> s2]
NoMessage == Message("none", 0, 0, "", "")
\* `Different number of sheets: Original has ${n1}, Modified has ${n2}`
CountMessage(n1, n2) == Message("count", n1, n2, "", "")
\* `Sheet names don't match: "${s1}" vs "${s2}"`
NamesMessage(s1, s2) == Message("names", 0, 0, s1, s2)

\* The result of the loop of validateStructures, bad being the indices at
\* which the names differ
FirstMismatch(originalSheets, modifiedSheets, bad) ==
    IF bad = {} THEN [isValid |-> TRUE, message |-> NoMessage]
    ELSE [isValid |-> FALSE,
          message |-> NamesMessage(originalSheets[CHOOSE i \in bad : \A j \in bad : i <= j],
                                   modifiedSheets[CHOOSE i \in bad : \A j \in bad : i <= j])]

\* Variant: the names compared as sets, whatever their order
validateStructuresUnordered(originalSheets, modifiedSheets) ==
    IF Len(originalSheets) # Len(modifiedSheets) THEN
        [isValid |-> FALSE,
         message |-> CountMessage(Len(originalSheets), Len(modifiedSheets))]
    ELSE FirstMismatch(originalSheets, modifiedSheets,
                       {i \in 1..Len(originalSheets) :
                            \A j \in 1..Len(modifiedSheets) :
                                originalSheets[i] # modifiedSheets[j]})

\* validateStructures(), on the two SheetNames arrays
validateStructures(originalSheets, modifiedSheets) ==
    IF Len(originalSheets) # Len(modifiedSheets) THEN
        [isValid |-> FALSE,
         message |-> CountMessage(Len(originalSheets), Len(modifiedSheets))]
    ELSE FirstMismatch(originalSheets, modifiedSheets,
                       {i \in 1..Len(originalSheets) :
                            originalSheets[i] # modifiedSheets[i]})

(***************************************************************************)
(* Sheet Aligner                                                           *)
(***************************************************************************)
\* Variant: the loops nested the other way round, columns outside
ScanOrderColumnMajor(maxRows, maxCols) ==
    IF maxRows <= 0 \/ maxCols <= 0 THEN <<>>
    ELSE [k \in 1..(maxRows * maxCols) |->
            <<(k - 1) % maxRows, (k - 1) \div maxRows>>]

\* The coordinates the nested loops visit, in the order they visit them:
\* for row in 0..maxRows-1, for col in 0..maxCols-1
ScanOrder(maxRows, maxCols) ==
    IF maxRows <= 0 \/ maxCols <= 0 THEN <<>>
    ELSE [k \in 1..(maxRows * maxCols) |->
            <<(k - 1) \div maxCols, (k - 1) % maxCols>>]

DifferenceRecord(sheetName, row, col, originalValue, modifiedValue) ==
    [sheet |-> sheetName, row |-> row + 1, col |-> col + 1,
     cellRef |-> encode_cell(row, col),
     originalValue |-> originalValue, modifiedValue |-> modifiedValue]

\* The coordinates of one sheet the loop body finds different, in scan order
DifferingCoords(originalSheet, modifiedSheet) ==
    SelectSeq(ScanOrder(BoxRows(originalSheet, modifiedSheet),
                        BoxCols(originalSheet, modifiedSheet)),
              LAMBDA rc : valuesAreDifferent(originalValueAt(originalSheet, rc[1], rc[2]),
                                             modifiedValueAt(modifiedSheet, rc[1], rc[2])))

\* The records pushed for the coordinates found
RecordsAt(found, originalSheet, modifiedSheet, sheetName) ==
    [k \in 1..Len(found) |->
        DifferenceRecord(sheetName, found[k][1], found[k][2],
                         originalValueAt(originalSheet, found[k][1], found[k][2]),
                         modifiedValueAt(modifiedSheet, found[k][1], found[k][2]))]

\* The records compareFiles pushes for one sheet
SheetRecords(originalSheet, modifiedSheet, sheetName) ==
    RecordsAt(DifferingCoords(originalSheet, modifiedSheet),
              originalSheet, modifiedSheet, sheetName)

\* Variant: keys added for the columns after the label column only
KeysAtDataColumnsOnly(found) ==
    {found[k] : k \in {j \in 1..Len(found) : found[j][2] >= 1}}

\* The keys added for the coordinates found: the key `${row}-${col}` is the
\* pair <<row, col>>
KeysAt(found) == {found[k] : k \in 1..Len(found)}

\* The set sheetDifferences of one sheet
SheetKeys(originalSheet, modifiedSheet) ==
    KeysAt(DifferingCoords(originalSheet, modifiedSheet))

\* The sheets of both workbooks under the k-th sheet name of the original
OriginalMatrix(originalData, k) ==
    sheet_to_json(originalData.Sheets[originalData.SheetNames[k]])
ModifiedMatrix(originalData, modifiedData, k) ==
    sheet_to_json(modifiedData.Sheets[originalData.SheetNames[k]])

\* The array differences after the first k sheets
RECURSIVE DifferencesUpTo(_, _, _)
DifferencesUpTo(originalData, modifiedData, k) ==
    IF k = 0 THEN <<>>
    ELSE DifferencesUpTo(originalData, modifiedData, k - 1)
            \o SheetRecords(OriginalMatrix(originalData, k),
                            ModifiedMatrix(originalData, modifiedData, k),
                            originalData.SheetNames[k])

\* this.differenceMap after the first k sheets, from the map dm
RECURSIVE DifferenceMapUpTo(_, _, _, _)
DifferenceMapUpTo(dm, originalData, modifiedData, k) ==
    IF k = 0 THEN dm
    ELSE (originalData.SheetNames[k] :>
                SheetKeys(OriginalMatrix(originalData, k),
                          ModifiedMatrix(originalData, modifiedData, k)))
            @@ DifferenceMapUpTo(dm, originalData, modifiedData, k - 1)

\* this.comparisonResult as compareFiles builds it (comparisonDate, the
\* wall clock, is left out)
ComparisonResult(differences, sheetNames, original, modified) ==
    [differences |-> differences,
     totalDifferences |-> Len(differences),
     sheetsCompared |-> Len(sheetNames),
     originalFile |-> original.name,
     modifiedFile |-> modified.name]

\* compareFiles(): the new this.comparisonResult and this.differenceMap,
\* from the map dm
compareFiles(dm, original, modified, wb, wb2) ==
    [comparisonResult |->
        ComparisonResult(DifferencesUpTo(wb, wb2, Len(wb.SheetNames)),
                         wb.SheetNames, original, modified),
     differenceMap |-> DifferenceMapUpTo(dm, wb, wb2, Len(wb.SheetNames))]

(***************************************************************************)
(* Report Renderer: formatting                                             *)
(***************************************************************************)
LowerLetters == <<"a", "b", "c", "d", "e", "f", "g", "h", "i", "j", "k", "l", "m",
                  "n", "o", "p", "q", "r", "s", "t", "u", "v", "w", "x", "y", "z">>

\* String.prototype.toLowerCase
ToLowerCase(s) ==
    [k \in 1..Len(s) |->
        IF \E j \in 1..26 : Letters[j] = s[k]
        THEN LowerLetters[CHOOSE j \in 1..26 : Letters[j] = s[k]] ELSE s[k]]

\* s.includes(sub)
IncludesStr(s, sub) ==
    \E k \in 1..(Len(s) - Len(sub) + 1) : SubSeq(s, k, k + Len(sub) - 1) = sub

\* Number(value), the conversion the arithmetic and relational operators apply
ToNumberValue(v) ==
    CASE v.t = "str" -> ToNumber(v.s)
      [] v.t \in {"num", "nan"} -> v
      [] v.t = "null" -> Zero
      [] OTHER -> NaNV

\* toFixed(2) of a magnitude with integer part i, rounded to cents hundredths
RoundCents(i, cents) ==
    IF cents = 100 THEN Num(i + 1, 0) ELSE Num(i, cents * 10000000)

RoundMagnitude(m) == RoundCents(m.i, (m.f + 5000000) \div 10000000)

\* Number(num.toFixed(2)): rounded to two decimals, half away from zero
RoundTo2(a) ==
    IF a.t # "num" THEN NaNV
    ELSE IF IsNegative(a) THEN Neg(RoundMagnitude(Neg(a)))
    ELSE RoundMagnitude(a)

\* digits.replace(/\B(?=(\d{3})+(?!\d))/g, ','): a comma before every group
\* of three digits counted from the right
RECURSIVE GroupThousands(_)
GroupThousands(ds) ==
    IF Len(ds) <= 3 THEN ds
    ELSE GroupThousands(SubSeq(ds, 1, Len(ds) - 3)) \o <<",">>
            \o SubSeq(ds, Len(ds) - 2, Len(ds))

\* rounded.toString() with the integer part grouped, for a magnitude m
FormatMagnitude(m) ==
    GroupThousands(IntDigits(m.i))
        \o (IF m.f = 0 THEN <<>> ELSE <<".">> \o FracDigits(m.f))

FormatRounded(rounded) ==
    IF rounded.t # "num" THEN <<"N", "a", "N">>
    ELSE IF IsNegative(rounded) THEN <<"-">> \o FormatMagnitude(Neg(rounded))
    ELSE FormatMagnitude(rounded)

\* Utils.formatNumber(num)
formatNumber(num) == FormatRounded(RoundTo2(num))

\* formatCode.includes('%') || formatCode.includes('percent')
FormatCodeIsPercent(formatCode) ==
    \/ Includes(formatCode, "%")
    \/ IncludesStr(formatCode, <<"p", "e", "r", "c", "e", "n", "t">>)

\* The first test of isPercentageCell: the cell's number format
PercentByFormat(originalCell) ==
    /\ originalCell # Null
    /\ originalCell.z # <<>>
    /\ FormatCodeIsPercent(ToLowerCase(originalCell.z))

\* headerText.includes('%') || ... 'percent' || ... 'rate' || ... 'ratio'
HeaderTextIsPercent(headerText) ==
    \/ Includes(headerText, "%")
    \/ IncludesStr(headerText, <<"p", "e", "r", "c", "e", "n", "t">>)
    \/ IncludesStr(headerText, <<"r", "a", "t", "e">>)
    \/ IncludesStr(headerText, <<"r", "a", "t", "i", "o">>)

HeaderCellIsPercent(headerCell) ==
    /\ headerCell # Null
    /\ ~Falsy(headerCell.v)
    /\ HeaderTextIsPercent(ToLowerCase(ToStr(headerCell.v)))

\* The second test: the header cell (row 0 of the column) of the sheet of
\* that name in this.originalData, the ORIGINAL workbook
PercentByHeader(wb, sheetName, col) ==
    /\ wb # Null
    /\ HeaderCellIsPercent(CellInfo(wb.Sheets[sheetName], 0, col))

\* The text of valueStr after its first point up to the next one
UpToPoint(after, more) ==
    IF more = {} THEN after
    ELSE SubSeq(after, 1, (CHOOSE k \in more : \A j \in more : k <= j) - 1)

AfterPoint(after) == UpToPoint(after, {k \in 1..Len(after) : after[k] = "."})

FromFirstPoint(valueStr, dots) ==
    IF dots = {} THEN <<>>
    ELSE AfterPoint(SubSeq(valueStr,
                           (CHOOSE k \in dots : \A j \in dots : k <= j) + 1,
                           Len(valueStr)))

\* valueStr.split('.')[1]: undefined (here the empty sequence, equally
\* falsy) when there is no point
DecimalPart(valueStr) ==
    FromFirstPoint(valueStr, {k \in 1..Len(valueStr) : valueStr[k] = "."})

\* Variant: one decimal is enough (decimalPart.length >= 1)
HeuristicOnMagnitudeOneDecimal(value, absValue) ==
    /\ Le(absValue, One) /\ Gt(absValue, Zero)
    /\ Len(DecimalPart(NumToString(value))) >= 1
    /\ Ge(absValue, Num(0, 1000000))

\* The third test, on absValue = Math.abs(value)
HeuristicOnMagnitude(value, absValue) ==
    /\ Le(absValue, One) /\ Gt(absValue, Zero)
    /\ Len(DecimalPart(NumToString(value))) >= 2
    /\ Ge(absValue, Num(0, 1000000))

\* The third test: a fraction with at least two decimals
PercentByHeuristic(value) ==
    value.t = "num" /\ HeuristicOnMagnitude(value, MathAbs(value))

\* isPercentageCell(originalCell, sheetName, cellRef, value): wb is
\* this.originalData, col the column of cellRef
isPercentageCell(wb, originalCell, sheetName, col, value) ==
    \/ PercentByFormat(originalCell)
    \/ PercentByHeader(wb, sheetName, col)
    \/ PercentByHeuristic(value)

\* The percentage branch of formatValue, on Number(value)
FormatAsPercent(number) ==
    Str((IF IsNegative(number) THEN <<"-">> ELSE <<>>)
            \o formatNumber(MathAbs(RoundTo2(Times100(number)))) \o <<"%">>)

\* The string branch of formatValue, on trimmedValue
FormatTrimmed(value, trimmedValue) ==
    IF trimmedValue = <<>> THEN value
    ELSE IF EndsWith(trimmedValue, "%") /\ ~IsNaNStr(DropLast(trimmedValue))
        THEN Str(formatNumber(MathAbs(ParseFloat(DropLast(trimmedValue)))) \o <<"%">>)
    ELSE IF ~IsNaNStr(trimmedValue)
        THEN Str(formatNumber(ParseFloat(trimmedValue)))
    ELSE value

\* formatValue(value, originalCell, sheetName, cellRef)
formatValue(wb, value, originalCell, sheetName, col) ==
    IF isPercentageCell(wb, originalCell, sheetName, col, value)
        THEN FormatAsPercent(ToNumberValue(value))
    ELSE IF TypeofNumber(value) THEN Str(formatNumber(value))
    ELSE IF IsStr(value) THEN FormatTrimmed(value, Trim(value.s))
    ELSE value

(***************************************************************************)
(* Report Renderer: layouts                                                *)
(*                                                                         *)
(* An output string is a sequence of pieces whose concatenation is the     *)
(* text: single characters for formatted values, whole literals for the    *)
(* fixed text of the templates.                                            *)
(***************************************************************************)
\* value === '' || value === null || value === undefined
IsBlank(value) == value = EmptyStr \/ value.t \in {"null", "undef"}

\* formatted.includes('%') on a string
ShowsPercent(formatted) == IsStr(formatted) /\ Includes(formatted.s, "%")

\* `${sign}${formattedDiff}` or '0' of createValueComparisonSingleCell, the
\* suffix being '%' in the percentage branch and nothing in the numeric one
singleCellDelta(difference, formattedDiff, suffix) ==
    IF Gt(MathAbs(difference), NUMERIC_EPSILON)
    THEN (IF Gt(difference, Zero) THEN <<"+">> ELSE <<>>) \o formattedDiff \o suffix
    ELSE IF suffix = <<>> THEN <<"0">> ELSE <<"0%">>

\* The text createValueComparisonSingleCell appends after ", Difference: "
singleCellDifference(originalNumeric, modifiedNumeric, originalIsPercentage, modifiedIsPercentage) ==
    IF originalNumeric # NullV /\ modifiedNumeric # NullV THEN
        IF originalIsPercentage /\ modifiedIsPercentage THEN
            singleCellDelta(Sub(modifiedNumeric, originalNumeric),
                formatNumber(MathAbs(Sub(modifiedNumeric, originalNumeric))), <<"%">>)
        ELSE IF ~originalIsPercentage /\ ~modifiedIsPercentage THEN
            singleCellDelta(Sub(modifiedNumeric, originalNumeric),
                formatNumber(MathAbs(Sub(modifiedNumeric, originalNumeric))), <<>>)
        ELSE <<"N/A (type mismatch)">>
    ELSE <<"N/A (non-numeric)">>

\* The result string, from the formatted values and the percentage flags
singleCellResult(originalValue, modifiedValue, formattedOriginal, formattedModified, originalIsPercentage, modifiedIsPercentage) ==
    Str(<<"Original Value: ">> \o ToStr(formattedOriginal)
            \o <<", Changed Value: ">> \o ToStr(formattedModified)
            \o <<", Difference: ">>
            \o singleCellDifference(getNumericValue(originalValue, originalIsPercentage),
                                    getNumericValue(modifiedValue, modifiedIsPercentage),
                                    originalIsPercentage, modifiedIsPercentage))

singleCellFlags(originalValue, modifiedValue, formattedOriginal, formattedModified, originalCellIsPercentage, modifiedCellIsPercentage) ==
    singleCellResult(originalValue, modifiedValue, formattedOriginal, formattedModified,
                     originalCellIsPercentage \/ ShowsPercent(formattedOriginal),
                     modifiedCellIsPercentage \/ ShowsPercent(formattedModified))

\* Variant: without the early return for a pair blank on both sides
createValueComparisonSingleCellNoBlankCase(wb, originalValue, modifiedValue, originalCellInfo, modifiedCellInfo, sheetName, col) ==
    singleCellFlags(originalValue, modifiedValue,
        formatValue(wb, originalValue, originalCellInfo, sheetName, col),
        formatValue(wb, modifiedValue, modifiedCellInfo, sheetName, col),
        isPercentageCell(wb, originalCellInfo, sheetName, col, originalValue),
        isPercentageCell(wb, modifiedCellInfo, sheetName, col, modifiedValue))

\* createValueComparisonSingleCell(originalValue, modifiedValue,
\* originalCellInfo, modifiedCellInfo, sheetName, cellRef): one string.
\* wb is this.originalData, col the column of cellRef.
createValueComparisonSingleCell(wb, originalValue, modifiedValue, originalCellInfo, modifiedCellInfo, sheetName, col) ==
    IF IsBlank(originalValue) /\ IsBlank(modifiedValue) THEN EmptyStr
    ELSE singleCellFlags(originalValue, modifiedValue,
            formatValue(wb, originalValue, originalCellInfo, sheetName, col),
            formatValue(wb, modifiedValue, modifiedCellInfo, sheetName, col),
            isPercentageCell(wb, originalCellInfo, sheetName, col, originalValue),
            isPercentageCell(wb, modifiedCellInfo, sheetName, col, modifiedValue))

\* Variant: a minus sign for a negative difference, in this layout only
multiCellDeltaWithMinus(difference, formattedDiff, suffix) ==
    IF Gt(MathAbs(difference), NUMERIC_EPSILON)
    THEN (IF Gt(difference, Zero) THEN <<"+">> ELSE <<"-">>) \o formattedDiff \o suffix
    ELSE IF suffix = <<>> THEN <<"0">> ELSE <<"0%">>

\* `${sign}${formattedDiff}` or '0' of createValueComparisonMultiCell
multiCellDelta(difference, formattedDiff, suffix) ==
    IF Gt(MathAbs(difference), NUMERIC_EPSILON)
    THEN (IF Gt(difference, Zero) THEN <<"+">> ELSE <<>>) \o formattedDiff \o suffix
    ELSE IF suffix = <<>> THEN <<"0">> ELSE <<"0%">>

\* The differenceText of createValueComparisonMultiCell
multiCellDifference(originalNumeric, modifiedNumeric, originalIsPercentage, modifiedIsPercentage) ==
    IF originalNumeric # NullV /\ modifiedNumeric # NullV THEN
        IF originalIsPercentage /\ modifiedIsPercentage THEN
            multiCellDelta(Sub(modifiedNumeric, originalNumeric),
                formatNumber(MathAbs(Sub(modifiedNumeric, originalNumeric))), <<"%">>)
        ELSE IF ~originalIsPercentage /\ ~modifiedIsPercentage THEN
            multiCellDelta(Sub(modifiedNumeric, originalNumeric),
                formatNumber(MathAbs(Sub(modifiedNumeric, originalNumeric))), <<>>)
        ELSE <<"N/A (type mismatch)">>
    ELSE <<"N/A (non-numeric)">>

\* The three result cells, from the formatted values and the percentage flags
multiCellResult(originalValue, modifiedValue, formattedOriginal, formattedModified, originalIsPercentage, modifiedIsPercentage) ==
    <<formattedOriginal, formattedModified,
      Str(multiCellDifference(getNumericValue(originalValue, originalIsPercentage),
                              getNumericValue(modifiedValue, modifiedIsPercentage),
                              originalIsPercentage, modifiedIsPercentage))>>

multiCellFlags(originalValue, modifiedValue, formattedOriginal, formattedModified, originalCellIsPercentage, modifiedCellIsPercentage) ==
    multiCellResult(originalValue, modifiedValue, formattedOriginal, formattedModified,
                    originalCellIsPercentage \/ ShowsPercent(formattedOriginal),
                    modifiedCellIsPercentage \/ ShowsPercent(formattedModified))

\* createValueComparisonMultiCell(...): the cells original, changed, difference
createValueComparisonMultiCell(wb, originalValue, modifiedValue, originalCellInfo, modifiedCellInfo, sheetName, col) ==
    IF IsBlank(originalValue) /\ IsBlank(modifiedValue)
    THEN <<EmptyStr, EmptyStr, EmptyStr>>
    ELSE multiCellFlags(originalValue, modifiedValue,
            formatValue(wb, originalValue, originalCellInfo, sheetName, col),
            formatValue(wb, modifiedValue, modifiedCellInfo, sheetName, col),
            isPercentageCell(wb, originalCellInfo, sheetName, col, originalValue),
            isPercentageCell(wb, modifiedCellInfo, sheetName, col, modifiedValue))

\* The column-0 cell of a data row, from hasAnyDifference and originalValue
TaggedLabel(hasAnyDifference, originalValue) ==
    IF hasAnyDifference
    THEN Str(<<"[CHANGED] ">> \o ToStr(originalValue))
    ELSE originalValue

\* Variant: the loop that sets hasAnyDifference starts at the label column
singleCellLabelFromLabelColumn(originalData, modifiedData, row, maxCols) ==
    TaggedLabel(\E col \in 0..(maxCols - 1) :
                    valuesAreDifferent(originalValueAt(originalData, row, col),
                                       modifiedValueAt(modifiedData, row, col)),
                originalValueAt(originalData, row, 0))

\* The column-0 cell of a data row of the single-cell layout: the loop that
\* sets hasAnyDifference, then the col === 0 branch
singleCellLabel(originalData, modifiedData, row, maxCols) ==
    TaggedLabel(\E col \in 1..(maxCols - 1) :
                    valuesAreDifferent(originalValueAt(originalData, row, col),
                                       modifiedValueAt(modifiedData, row, col)),
                originalValueAt(originalData, row, 0))

\* Variant: the loop that sets hasAnyDifference starts at column 2
multiCellLabelFromSecondColumn(originalData, modifiedData, row, maxCols) ==
    TaggedLabel(\E col \in 2..(maxCols - 1) :
                    valuesAreDifferent(originalValueAt(originalData, row, col),
                                       modifiedValueAt(modifiedData, row, col)),
                originalValueAt(originalData, row, 0))

\* The column-0 cell of a data row of the multi-cell layout
multiCellLabel(originalData, modifiedData, row, maxCols) ==
    TaggedLabel(\E col \in 1..(maxCols - 1) :
                    valuesAreDifferent(originalValueAt(originalData, row, col),
                                       modifiedValueAt(modifiedData, row, col)),
                originalValueAt(originalData, row, 0))

RECURSIVE Flatten(_)
Flatten(ss) == IF ss = <<>> THEN <<>> ELSE Head(ss) \o Flatten(Tail(ss))

T(text) == Str(<<text>>)

SingleCellLegend ==
    << <<T("COMPARISON LEGEND")>>,
       <<T("Red Circle = Field name where values have changed")>>,
       <<T("No symbol = Field name where values are identical")>>,
       <<T("Format: Single Cell (Original Value, Changed Value, Difference)")>>,
       <<EmptyStr>>,
       <<T("Field Name"), T("Value Comparison")>>,
       <<EmptyStr>> >>

MultiCellLegend(maxCols) ==
    << <<T("COMPARISON LEGEND")>>,
       <<T("Red Circle = Field name where values have changed")>>,
       <<T("No symbol = Field name where values are identical")>>,
       <<T("Format: Multi Cell (Separate columns for Original, Changed, Difference)")>>,
       <<EmptyStr>>,
       <<T("Field Name")>> \o
           Flatten([c \in 1..(maxCols - 1) |->
                       <<T("Original Value"), T("Changed Value"), T("Difference")>>]),
       <<EmptyStr>> >>

\* The number of rows both layouts push before the data rows
LegendRows == Len(SingleCellLegend)

\* One data row of the single-cell layout (the body of the row loop)
singleCellRow(wb, ws, ws2, originalData, modifiedData, sheetName, row, maxCols) ==
    IF maxCols <= 0 THEN <<>>
    ELSE <<singleCellLabel(originalData, modifiedData, row, maxCols)>> \o
         [col \in 1..(maxCols - 1) |->
            createValueComparisonSingleCell(wb,
                originalValueAt(originalData, row, col),
                modifiedValueAt(modifiedData, row, col),
                CellInfo(ws, row, col), CellInfo(ws2, row, col),
                sheetName, col)]

singleCellData(wb, ws, ws2, originalData, modifiedData, sheetName, maxRows, maxCols) ==
    SingleCellLegend \o
        [r \in 1..maxRows |->
            singleCellRow(wb, ws, ws2, originalData, modifiedData, sheetName,
                          r - 1, maxCols)]

\* Variant: one output row per row of the original matrix only
createComparisonDataSingleCellOriginalRows(wb, ws, ws2, originalData, modifiedData, sheetName) ==
    singleCellData(wb, ws, ws2, originalData, modifiedData, sheetName,
                   Len(originalData),
                   BoxCols(originalData, modifiedData))

\* createComparisonDataSingleCell(originalData, modifiedData, sheetName);
\* wb is this.originalData, ws and ws2 the two worksheets of that name
createComparisonDataSingleCell(wb, ws, ws2, originalData, modifiedData, sheetName) ==
    singleCellData(wb, ws, ws2, originalData, modifiedData, sheetName,
                   BoxRows(originalData, modifiedData),
                   BoxCols(originalData, modifiedData))

\* One data row of the multi-cell layout
multiCellRow(wb, ws, ws2, originalData, modifiedData, sheetName, row, maxCols) ==
    IF maxCols <= 0 THEN <<>>
    ELSE <<multiCellLabel(originalData, modifiedData, row, maxCols)>> \o
         Flatten([col \in 1..(maxCols - 1) |->
            createValueComparisonMultiCell(wb,
                originalValueAt(originalData, row, col),
                modifiedValueAt(modifiedData, row, col),
                CellInfo(ws, row, col), CellInfo(ws2, row, col),
                sheetName, col)])

multiCellData(wb, ws, ws2, originalData, modifiedData, sheetName, maxRows, maxCols) ==
    MultiCellLegend(maxCols) \o
        [r \in 1..maxRows |->
            multiCellRow(wb, ws, ws2, originalData, modifiedData, sheetName,
                         r - 1, maxCols)]

\* createComparisonDataMultiCell(originalData, modifiedData, sheetName)
createComparisonDataMultiCell(wb, ws, ws2, originalData, modifiedData, sheetName) ==
    multiCellData(wb, ws, ws2, originalData, modifiedData, sheetName,
                  BoxRows(originalData, modifiedData),
                  BoxCols(originalData, modifiedData))

\* The body of the forEach of createComparisonSheets, for the worksheets ws
\* and ws2 of one name and their matrices
comparisonData(wb, ws, ws2, originalData, modifiedData, sheetName, format) ==
    IF format = "single"
    THEN createComparisonDataSingleCell(wb, ws, ws2, originalData, modifiedData, sheetName)
    ELSE createComparisonDataMultiCell(wb, ws, ws2, originalData, modifiedData, sheetName)

\* createComparisonSheets(workbook) within generateReport(): the report
\* workbook, one sheet `${sheetName}_Comparison` per sheet of the original,
\* holding the rendered matrix (the codec's aoa_to_sheet is not modelled)
generateReport(wb, wb2, format) ==
    [SheetNames |-> [k \in 1..Len(wb.SheetNames) |-> <<wb.SheetNames[k], "_Comparison">>],
     Sheets |-> [n \in {wb.SheetNames[k] : k \in 1..Len(wb.SheetNames)} |->
                    comparisonData(wb, wb.Sheets[n], wb2.Sheets[n],
                                   sheet_to_json(wb.Sheets[n]),
                                   sheet_to_json(wb2.Sheets[n]), n, format)]]

(***************************************************************************)
(* State                                                                   *)
(***************************************************************************)
VARIABLES
    originalFile,       \* this.originalFile: a File or null
    modifiedFile,       \* this.modifiedFile
    originalData,       \* this.originalData: a workbook or null
    modifiedData,       \* this.modifiedData
    comparisonResult,   \* this.comparisonResult
    differenceMap,      \* this.differenceMap: sheet name -> set of keys
    reportWorkbook,     \* this.reportWorkbook (undefined until a report exists)
    reportFormat,       \* this.reportFormat
    ui,                 \* the page: which sections show, and what they show
    timers,             \* completion timers (setTimeout 1000) still pending
    lastRun,            \* what the latest performComparison did
    pendingReads,       \* handleFileUpload calls waiting in `await readExcelFile`
    lastSelection,      \* the valid file last chosen in each file input
    cellArgs,           \* arguments of a Cell Differ call
    cellOut             \* its result

appVars == <<originalFile, modifiedFile, originalData, modifiedData,
             comparisonResult, differenceMap, reportWorkbook, reportFormat,
             ui, timers, lastRun, pendingReads, lastSelection>>
cellVars == <<cellArgs, cellOut>>
vars == <<originalFile, modifiedFile, originalData, modifiedData,
          comparisonResult, differenceMap, reportWorkbook, reportFormat,
          ui, timers, lastRun, pendingReads, lastSelection, cellArgs, cellOut>>

\* Pending completion timers the model follows at once
MaxTimers == 1

\* The page as index.html delivers it: progress, results, error and the
\* download button hidden
InitialUi ==
    [progress |-> FALSE, results |-> FALSE, error |-> FALSE, download |-> FALSE,
     errorMessage |-> NoMessage, resultsContent |-> Null]

NoRun ==
    [outcome |-> "none", validation |-> [isValid |-> FALSE, message |-> NoMessage],
     compareFilesCalled |-> FALSE, generateReportCalled |-> FALSE]

NoCellArgs == [a |-> EmptyStr, b |-> EmptyStr]
NoCellOut == [done |-> FALSE, verdict |-> FALSE]

\* The state the constructor leaves
Constructed ==
    /\ originalFile = Null /\ modifiedFile = Null
    /\ originalData = Null /\ modifiedData = Null
    /\ comparisonResult = Null
    /\ differenceMap = <<>>
    /\ reportWorkbook = Null
    /\ reportFormat = "single"
    /\ ui = InitialUi
    /\ timers = 0
    /\ lastRun = NoRun
    /\ pendingReads = {}
    /\ lastSelection = [original |-> Null, modified |-> Null]

(***************************************************************************)
(* performComparison                                                       *)
(*                                                                         *)
(* The click handler runs to its end without another task in between:      *)
(* compareFiles has no await inside, so `await this.compareFiles()` only   *)
(* defers the rest to the microtask queue of the same task.  The timer     *)
(* callback is a task of its own.                                          *)
(***************************************************************************)
\* `${Utils.formatNumber(...)}` and the sanitized file names showResults
\* writes into the results section
ResultsContent(result, original, modified) ==
    [totalDifferences |-> formatNumber(Num(result.totalDifferences, 0)),
     sheetsCompared |-> formatNumber(Num(result.sheetsCompared, 0)),
     originalFile |-> original.name, modifiedFile |-> modified.name]

\* Variant: the catch branch hides the progress and does not call showError
comparisonFailsSilently(structureValidation) ==
    /\ ui' = [ui EXCEPT !.progress = FALSE, !.results = FALSE,
                        !.download = FALSE, !.error = FALSE]
    /\ differenceMap' = <<>>
    /\ lastRun' = [outcome |-> "error",
                   validation |-> structureValidation,
                   compareFilesCalled |-> FALSE,
                   generateReportCalled |-> FALSE]
    /\ UNCHANGED <<comparisonResult, reportWorkbook, timers>>

\* The catch branch after validateStructures reported a mismatch:
\* showProgress(false), showError(message)
comparisonFails(structureValidation) ==
    /\ ui' = [ui EXCEPT !.progress = FALSE, !.results = FALSE,
                        !.download = FALSE, !.error = TRUE,
                        !.errorMessage = structureValidation.message]
    /\ differenceMap' = <<>>
    /\ lastRun' = [outcome |-> "error",
                   validation |-> structureValidation,
                   compareFilesCalled |-> FALSE,
                   generateReportCalled |-> FALSE]
    /\ UNCHANGED <<comparisonResult, reportWorkbook, timers>>

\* The try block after a successful validation: compareFiles, generateReport,
\* setTimeout
comparisonSucceeds(structureValidation, compared) ==
    /\ timers < MaxTimers
    /\ ui' = [ui EXCEPT !.progress = TRUE, !.results = FALSE,
                        !.download = FALSE, !.error = FALSE]
    /\ comparisonResult' = compared.comparisonResult
    /\ differenceMap' = compared.differenceMap
    /\ reportWorkbook' = generateReport(originalData, modifiedData, reportFormat)
    /\ timers' = timers + 1
    /\ lastRun' = [outcome |-> "ok",
                   validation |-> structureValidation,
                   compareFilesCalled |-> TRUE,
                   generateReportCalled |-> TRUE]

\* What performComparison does with the result of validateStructures
afterValidation(structureValidation) ==
    IF ~structureValidation.isValid
    THEN comparisonFails(structureValidation)
    ELSE comparisonSucceeds(structureValidation,
            compareFiles(<<>>, originalFile, modifiedFile, originalData, modifiedData))

\* performComparison(): the hiding of the sections and differenceMap.clear()
\* are part of both outcomes
performComparison ==
    \* the compare button is enabled only with both files loaded
    /\ originalFile # Null /\ modifiedFile # Null
    /\ afterValidation(validateStructures(originalData.SheetNames,
                                          modifiedData.SheetNames))
    /\ UNCHANGED <<originalFile, modifiedFile, originalData, modifiedData,
                   reportFormat, pendingReads, lastSelection, cellVars>>

\* showProgress(false) followed by showResults(): reading `.name` of a file
\* slot that was cleared meanwhile throws, and the callback ends there
showResults(page, result, original, modified) ==
    IF original = Null \/ modified = Null
    THEN [page EXCEPT !.progress = FALSE]
    ELSE [page EXCEPT !.progress = FALSE, !.results = TRUE, !.download = TRUE,
                      !.resultsContent = ResultsContent(result, original, modified)]

\* The callback of setTimeout(..., 1000): showProgress(false), showResults()
completionTimer ==
    /\ timers > 0
    /\ timers' = timers - 1
    /\ ui' = showResults(ui, comparisonResult, originalFile, modifiedFile)
    /\ UNCHANGED <<originalFile, modifiedFile, originalData, modifiedData,
                   comparisonResult, differenceMap, reportWorkbook, reportFormat,
                   lastRun, pendingReads, lastSelection, cellVars>>

(***************************************************************************)
(* Inputs                                                                  *)
(***************************************************************************)
\* Sheets a workbook may hold
MaxSheets == 2

SheetNamePool == {"A", "B", "C"}

\* Sheet-name arrays: 1 to MaxSheets names, none twice
NameSeqs ==
    {names \in UNION {[1..n -> SheetNamePool] : n \in 1..MaxSheets} :
        \A i, j \in 1..Len(names) : names[i] = names[j] => i = j}

\* Cell values of the one-sheet workbooks: blank, zero, a number, a text
Palette == {EmptyStr, Zero, One, Str(<<"a">>)}
\* Cell values of their sheets with more than two cells
SmallPalette == {Zero, Str(<<"a">>)}

\* All rows x cols sheets over a palette, the cells without number format
Grids(rows, cols, palette) ==
    {[r \in 1..rows |-> [c \in 1..cols |-> Cell(m[r][c], <<>>)]] :
        m \in [1..rows -> [1..cols -> palette]]}

\* The empty sheet, and sheets of up to two rows and three columns
SheetPool ==
    {<<>>} \cup Grids(1, 1, Palette) \cup Grids(1, 2, Palette)
        \cup Grids(2, 1, Palette) \cup Grids(1, 3, SmallPalette)
        \cup Grids(2, 2, SmallPalette)

\* Sheets of the workbooks with several sheets
TinySheets ==
    { << <<Cell(Str(<<"a">>), <<>>), Cell(One, <<>>)>>,
         <<Cell(Str(<<"a">>), <<>>), Cell(One, <<>>)>> >>,
      << <<Cell(Zero, <<>>), Cell(Str(<<"a">>), <<>>)>>,
         <<Cell(One, <<>>), Cell(Str(<<"a">>), <<>>)>> >> }

Workbook(names, sheets) == [SheetNames |-> names, Sheets |-> sheets]

\* One sheet "A" with any content of the pool
OneSheetWorkbooks == {Workbook(<<"A">>, [n \in {"A"} |-> sh]) : sh \in SheetPool}

\* Any sheet names, each sheet one of the tiny ones
NamedWorkbooks ==
    UNION {{Workbook(names, f) :
                f \in [{names[k] : k \in 1..Len(names)} -> TinySheets]} :
           names \in NameSeqs}

\* The pairs (original, modified) a comparison run starts from
RunInputs ==
    (OneSheetWorkbooks \X OneSheetWorkbooks) \cup (NamedWorkbooks \X NamedWorkbooks)

File(name) == [name |-> name]

\* Both files loaded, a report format chosen, nothing compared yet
InitRun ==
    /\ \E pair \in RunInputs :
        /\ originalData = pair[1]
        /\ modifiedData = pair[2]
    /\ originalFile = File("original.xlsx")
    /\ modifiedFile = File("modified.xlsx")
    /\ reportFormat \in {"single", "multi"}
    /\ comparisonResult = Null
    /\ differenceMap = <<>>
    /\ reportWorkbook = Null
    /\ ui = InitialUi
    /\ timers = 0
    /\ lastRun = NoRun
    /\ pendingReads = {}
    /\ lastSelection = [original |-> File("original.xlsx"),
                        modified |-> File("modified.xlsx")]
    /\ cellArgs = NoCellArgs
    /\ cellOut = NoCellOut

NextRun == performComparison \/ completionTimer

\* Comparison runs on two loaded workbooks
SpecRun == InitRun /\ [][NextRun]_vars

(***************************************************************************)
(* The Cell Differ on its own                                              *)
(***************************************************************************)
S1(c1) == Str(<<c1>>)
S2(c1, c2) == Str(<<c1, c2>>)
S3(c1, c2, c3) == Str(<<c1, c2, c3>>)
S4(c1, c2, c3, c4) == Str(<<c1, c2, c3, c4>>)
S5(c1, c2, c3, c4, c5) == Str(<<c1, c2, c3, c4, c5>>)

\* Numbers a cell may hold: 0, 1, 1.000001, 1.000001001, 0.055, 0.12, 0.5,
\* 5.5, 42, 100, 150, 1000, -1, -0.055
CellNumbers ==
    {Zero, One, Num(1, 1000), Num(1, 1001), Num(0, 55000000), Num(0, 120000000),
     Num(0, 500000000), Num(5, 500000000), Num(42, 0), Num(100, 0), Num(150, 0),
     Num(1000, 0), Neg(One), Neg(Num(0, 55000000))}

\* Strings a cell may hold
CellStrings ==
    {EmptyStr, S1(" "), S1("a"), S4("t", "e", "x", "t"), S1("%"), S1(","),
     S1("0"), S1("1"), S3("1", ".", "0"), S3(" ", "1", " "),
     S4("5", ".", "5", "%"), S3("1", "0", "%"), S3("1", "2", "%"),
     S3("-", "5", "%"), S2("0", "%"), S3("5", "0", "%"),
     S5("1", ",", "0", "0", "0"), S4("1", "0", "0", "%"), S2("a", "%"),
     S3("4", "2", " ")}

CellValues == CellNumbers \cup CellStrings

InitCell ==
    /\ Constructed
    /\ cellArgs \in [a : CellValues, b : CellValues]
    /\ cellOut = NoCellOut

\* One call valuesAreDifferent(a, b)
callValuesAreDifferent ==
    /\ ~cellOut.done
    /\ cellOut' = [done |-> TRUE,
                   verdict |-> valuesAreDifferent(cellArgs.a, cellArgs.b)]
    /\ UNCHANGED <<appVars, cellArgs>>

NextCell == callValuesAreDifferent

\* Calls of the Cell Differ on any pair of cell values
SpecCell == InitCell /\ [][NextCell]_vars

(***************************************************************************)
(* Comparison runs on sheets with a header row, number formats and         *)
(* percentages                                                             *)
(***************************************************************************)
Chars7(c1, c2, c3, c4, c5, c6, c7) == Str(<<c1, c2, c3, c4, c5, c6, c7>>)

\* Values of the compared cell: blank, 42, 100, 150, 1, 0.12, 0.5, 0.0005,
\* -0.12, and texts, numeric strings, percentage strings
RenderValues ==
    {EmptyStr, Num(42, 0), Num(100, 0), Num(150, 0), One, Num(0, 120000000),
     Num(0, 500000000), Num(0, 500000), Neg(Num(0, 120000000)),
     S4("t", "e", "x", "t"), S3("1", "0", "%"), S3("1", "2", "%"), S1("%"),
     S5("1", ",", "0", "0", "0"), S1("5"), S3("N", "/", "A"), S3("-", "5", "%")}

\* Number formats of the compared cell: none, or a percentage format
RenderFormats == {<<>>, <<"0", "%">>}

\* Header texts of its column
RenderHeaders == {S1("h"), S4("R", "a", "t", "e")}

\* A sheet of a header row and one data row
HeadedSheet(header, value, format) ==
    << <<Cell(S4("N", "a", "m", "e"), <<>>), Cell(header, <<>>)>>,
       <<Cell(S1("x"), <<>>), Cell(value, format)>> >>

\* The rows ["Revenue", 100, "10%"] and ["Revenue", 150, 0.12]
RevenueOriginal ==
    <<Cell(Chars7("R", "e", "v", "e", "n", "u", "e"), <<>>),
      Cell(Num(100, 0), <<>>), Cell(S3("1", "0", "%"), <<>>)>>
RevenueModified ==
    <<Cell(Chars7("R", "e", "v", "e", "n", "u", "e"), <<>>),
      Cell(Num(150, 0), <<>>), Cell(Num(0, 120000000), <<>>)>>
RevenueHeader ==
    <<Cell(S4("N", "a", "m", "e"), <<>>), Cell(S4("S", "a", "l", "e"), <<>>),
      Cell(S4("G", "a", "i", "n"), <<>>)>>

SheetA(sheet) == Workbook(<<"A">>, [n \in {"A"} |-> sheet])

\* The pairs (original, modified): the same header over any two values and
\* formats; the Revenue rows as the first row and under a header row
RenderInputs ==
    {<<SheetA(HeadedSheet(h, v1, z1)), SheetA(HeadedSheet(h, v2, z2))>> :
        h \in RenderHeaders, v1 \in RenderValues, v2 \in RenderValues,
        z1 \in RenderFormats, z2 \in RenderFormats}
    \cup {<<SheetA(<<RevenueOriginal>>), SheetA(<<RevenueModified>>)>>,
          <<SheetA(<<RevenueHeader, RevenueOriginal>>),
            SheetA(<<RevenueHeader, RevenueModified>>)>>}

InitRender ==
    /\ \E pair \in RenderInputs :
        /\ originalData = pair[1]
        /\ modifiedData = pair[2]
    /\ originalFile = File("original.xlsx")
    /\ modifiedFile = File("modified.xlsx")
    /\ comparisonResult = Null
    /\ differenceMap = <<>>
    /\ reportWorkbook = Null
    /\ reportFormat \in {"single", "multi"}
    /\ ui = InitialUi
    /\ timers = 0
    /\ lastRun = NoRun
    /\ pendingReads = {}
    /\ lastSelection = [original |-> File("original.xlsx"),
                        modified |-> File("modified.xlsx")]
    /\ cellArgs = NoCellArgs
    /\ cellOut = NoCellOut

\* Comparison runs on sheets with headers, formats and percentages
SpecRender == InitRender /\ [][NextRun]_vars

(***************************************************************************)
(* The application: file selection, asynchronous reading, report format,   *)
(* comparison runs                                                         *)
(***************************************************************************)
\* CONFIG.MAX_FILE_SIZE, CONFIG.VALID_FILE_TYPES, CONFIG.VALID_EXTENSIONS
MAX_FILE_SIZE == 52428800
VALID_FILE_TYPES ==
    {"application/vnd.openxmlformats-officedocument.spreadsheetml.sheet",
     "application/vnd.ms-excel", "application/octet-stream"}
VALID_EXTENSIONS == {".xlsx", ".xls"}

\* validateFile(file); `extension` is the end of the lower-cased name that
\* endsWith looks at
validateFile(file) ==
    IF file.type \notin VALID_FILE_TYPES /\ file.extension \notin VALID_EXTENSIONS
    THEN [isValid |-> FALSE, message |-> "Invalid file type"]
    ELSE IF file.size > MAX_FILE_SIZE
    THEN [isValid |-> FALSE, message |-> "File too large"]
    ELSE [isValid |-> TRUE, message |-> ""]

\* readExcelFile(file): the promise rejects for an encrypted file and for a
\* workbook without sheets, and resolves with the workbook otherwise
readExcelFile(file) ==
    IF file.encrypted \/ Len(file.workbook.SheetNames) = 0
    THEN [resolved |-> FALSE, workbook |-> file.workbook]
    ELSE [resolved |-> TRUE, workbook |-> file.workbook]

\* The slot of a file type takes the file and its workbook (null, null to
\* clear it); the other slot stays
setSlot(fileType, file, data) ==
    IF fileType = "original"
    THEN /\ originalFile' = file
         /\ originalData' = data
         /\ UNCHANGED <<modifiedFile, modifiedData>>
    ELSE /\ modifiedFile' = file
         /\ modifiedData' = data
         /\ UNCHANGED <<originalFile, originalData>>

\* clearFileStatus(fileType): forget the file and its workbook.  The status
\* line under the file input, which this and showFileStatus write and nothing
\* reads, is not part of the state
clearFileStatus(fileType) ==
    /\ setSlot(fileType, Null, Null)
    /\ lastSelection' = [lastSelection EXCEPT ![fileType] = Null]
    /\ UNCHANGED pendingReads

\* Reads the model follows at once
MaxReads == 2

\* handleFileUpload after validateFile: an invalid file only shows an error
\* status; a valid one waits for readExcelFile
afterValidateFile(fileType, file, validation) ==
    IF ~validation.isValid
    THEN UNCHANGED <<originalFile, modifiedFile, originalData, modifiedData,
                     pendingReads, lastSelection>>
    ELSE /\ Cardinality(pendingReads) < MaxReads
         /\ pendingReads' = pendingReads \cup {[fileType |-> fileType, file |-> file]}
         /\ lastSelection' = [lastSelection EXCEPT ![fileType] = file]
         /\ UNCHANGED <<originalFile, modifiedFile, originalData, modifiedData>>

\* handleFileUpload(event, fileType) with event.target.files[0] = file, up to
\* its await
handleFileUpload(fileType, file) ==
    /\ afterValidateFile(fileType, file, validateFile(file))
    /\ UNCHANGED <<comparisonResult, differenceMap, reportWorkbook, reportFormat,
                   ui, timers, lastRun, cellVars>>

\* handleFileUpload(event, fileType) with no file in the event
handleFileUploadWithoutFile(fileType) ==
    /\ clearFileStatus(fileType)
    /\ UNCHANGED <<comparisonResult, differenceMap, reportWorkbook, reportFormat,
                   ui, timers, lastRun, cellVars>>

\* handleFileUpload after `await this.readExcelFile(file)`: the slot is set,
\* or the catch branch only shows an error status
afterReadExcelFile(fileType, file, read) ==
    IF read.resolved
    THEN setSlot(fileType, file, read.workbook)
    ELSE UNCHANGED <<originalFile, modifiedFile, originalData, modifiedData>>

\* The continuation of one waiting handleFileUpload
handleFileUploadResumes(pending) ==
    /\ pendingReads' = pendingReads \ {pending}
    /\ UNCHANGED lastSelection
    /\ afterReadExcelFile(pending.fileType, pending.file, readExcelFile(pending.file))
    /\ UNCHANGED <<comparisonResult, differenceMap, reportWorkbook, reportFormat,
                   ui, timers, lastRun, cellVars>>

\* handleDrop(e) with e.dataTransfer.files[0] = file: the first empty slot
\* takes it; with both slots filled nothing happens
handleDrop(fileType, file) ==
    /\ fileType = (IF originalFile = Null THEN "original" ELSE "modified")
    /\ fileType = "modified" => modifiedFile = Null
    /\ handleFileUpload(fileType, file)

\* The change handler of the reportFormat radio buttons
reportFormatChange(value) ==
    /\ value # reportFormat
    /\ reportFormat' = value
    /\ UNCHANGED <<originalFile, modifiedFile, originalData, modifiedData,
                   comparisonResult, differenceMap, reportWorkbook, ui, timers,
                   lastRun, pendingReads, lastSelection, cellVars>>

\* A File with the workbook its bytes hold
UploadedFile(name, extension, type, size, encrypted, workbook) ==
    [name |-> name, extension |-> extension, type |-> type, size |-> size,
     encrypted |-> encrypted, workbook |-> workbook]

Row2(label, value) == <<Cell(label, <<>>), Cell(value, <<>>)>>

\* Two workbooks with a sheet "A" that differ in one cell, one with a sheet
\* "B"; an encrypted file, a text file, a file of more than 50MB
JanuaryFile ==
    UploadedFile("january.xlsx", ".xlsx", "application/vnd.ms-excel", 1024, FALSE,
                 SheetA(<<Row2(S1("a"), One)>>))
FebruaryFile ==
    UploadedFile("february.xlsx", ".xlsx", "application/vnd.ms-excel", 1024, FALSE,
                 SheetA(<<Row2(S1("a"), Num(42, 0))>>))
BudgetFile ==
    UploadedFile("budget.xlsx", ".xlsx", "application/vnd.ms-excel", 1024, FALSE,
                 Workbook(<<"B">>, [n \in {"B"} |-> <<Row2(S1("a"), One)>>]))
LockedFile ==
    UploadedFile("locked.xlsx", ".xlsx", "application/vnd.ms-excel", 1024, TRUE,
                 SheetA(<<>>))
NotesFile ==
    UploadedFile("notes.txt", ".txt", "text/plain", 1024, FALSE, SheetA(<<>>))
HugeFile ==
    UploadedFile("huge.xls", ".xls", "application/vnd.ms-excel", MAX_FILE_SIZE + 1,
                 FALSE, SheetA(<<>>))

FileTypes == {"original", "modified"}

\* The files the user picks for each slot
FilePool(fileType) ==
    IF fileType = "original"
    THEN {JanuaryFile, LockedFile, NotesFile}
    ELSE {JanuaryFile, FebruaryFile, BudgetFile, HugeFile}

Init ==
    /\ Constructed
    /\ cellArgs = NoCellArgs
    /\ cellOut = NoCellOut

Next ==
    \/ \E fileType \in FileTypes : \E file \in FilePool(fileType) :
            handleFileUpload(fileType, file)
    \/ \E fileType \in FileTypes : handleFileUploadWithoutFile(fileType)
    \/ \E pending \in pendingReads : handleFileUploadResumes(pending)
    \/ \E fileType \in FileTypes : \E file \in FilePool(fileType) :
            handleDrop(fileType, file)
    \/ \E value \in {"single", "multi"} : reportFormatChange(value)
    \/ performComparison
    \/ completionTimer

\* The application from its construction on
Spec == Init /\ [][Next]_vars

(***************************************************************************)
(* Properties of the Cell Differ (SpecCell)                                *)
(***************************************************************************)
\* C3: valuesAreDifferent(a, b) gives the same verdict as
\* valuesAreDifferent(b, a), for every pair of cell values
DetectionIsSymmetric ==
    cellOut.done => cellOut.verdict = valuesAreDifferent(cellArgs.b, cellArgs.a)

\* A number against a text: a pair of different kinds, judged different
SymmetricCase ==
    /\ cellOut.done /\ cellOut.verdict
    /\ cellArgs.a = Num(100, 0) /\ cellArgs.b = S4("5", ".", "5", "%")

\* The value parses to a number (NaN, which '%' and ',' give, is none)
ParsesNumeric(v) == getNumericValue(v, FALSE).t = "num"

\* |x - y| > 0.000001, on the distance d = |x - y|
FartherThanEpsilon(d) == d.i > 0 \/ (d.i = 0 /\ d.f > 1000)

\* C4: two values that both parse as numeric are reported different exactly
\* when their distance is strictly greater than 1e-6
EpsilonBoundary ==
    (cellOut.done /\ ParsesNumeric(cellArgs.a) /\ ParsesNumeric(cellArgs.b)) =>
        (cellOut.verdict <=>
            FartherThanEpsilon(MathAbs(Sub(getNumericValue(cellArgs.a, FALSE),
                                           getNumericValue(cellArgs.b, FALSE)))))

\* 1 against 1.000001: a distance of exactly 1e-6, not flagged
ExactlyEpsilonApart ==
    /\ cellOut.done /\ ~cellOut.verdict
    /\ cellArgs.a = One /\ cellArgs.b = Num(1, 1000)

\* x is a number in [0, 1], text is "p%" and |x * 100 - p| <= EPSILON
SamePercentage(x, text) ==
    /\ x.t = "num" /\ Ge(x, Zero) /\ Le(x, One)
    /\ IsStr(text) /\ EndsWith(text.s, "%")
    /\ ParseFloat(DropLast(text.s)).t = "num"
    /\ Le(MathAbs(Sub(Times100(x), ParseFloat(DropLast(text.s)))), NUMERIC_EPSILON)

\* C5: a fraction x and the string "p%" denoting the same percentage are not
\* reported different (0.055 against "5.5%")
PercentageNormalization ==
    (cellOut.done /\ SamePercentage(cellArgs.a, cellArgs.b)) => ~cellOut.verdict

(***************************************************************************)
(* Properties of a comparison run (SpecRun)                                *)
(***************************************************************************)
\* compareFiles of the latest run has completed
CompareFilesCompleted == lastRun.outcome = "ok"

SheetIndices == 1..Len(originalData.SheetNames)
SheetNameAt(k) == originalData.SheetNames[k]
SourceOriginal(k) == OriginalMatrix(originalData, k)
SourceModified(k) == ModifiedMatrix(originalData, modifiedData, k)
RowsOf(k) == 0..(BoxRows(SourceOriginal(k), SourceModified(k)) - 1)
ColsOf(k) == 0..(BoxCols(SourceOriginal(k), SourceModified(k)) - 1)

\* The source cell value at a coordinate, only an absent cell being replaced
\* by the empty string
SourceAt(data, row, col) ==
    IF RawAt(data, row, col) = Undef THEN EmptyStr ELSE RawAt(data, row, col)

\* The Cell Differ judges the pair of source values at the coordinate unequal
JudgedDifferent(k, row, col) ==
    valuesAreDifferent(SourceAt(SourceOriginal(k), row, col),
                       SourceAt(SourceModified(k), row, col))

\* comparisonResult.differences has a record for the coordinate
HasRecord(k, row, col) ==
    \E i \in 1..Len(comparisonResult.differences) :
        /\ comparisonResult.differences[i].sheet = SheetNameAt(k)
        /\ comparisonResult.differences[i].row = row + 1
        /\ comparisonResult.differences[i].col = col + 1

\* C1: after compareFiles, a coordinate of a sheet's bounding box has a
\* record exactly when the Cell Differ judges its pair of source values
\* unequal
RecordIffJudgedDifferent ==
    CompareFilesCompleted =>
        \A k \in SheetIndices : \A row \in RowsOf(k) : \A col \in ColsOf(k) :
            HasRecord(k, row, col) <=> JudgedDifferent(k, row, col)

\* C2: a workbook compared with itself gives no record and an empty change
\* set for every sheet
Idempotence ==
    (CompareFilesCompleted /\ originalData = modifiedData) =>
        /\ comparisonResult.totalDifferences = 0
        /\ comparisonResult.differences = <<>>
        /\ \A k \in SheetIndices : differenceMap[SheetNameAt(k)] = {}

\* A workbook holding a zero, a text, a blank and a number, compared with
\* itself
SelfComparison ==
    /\ CompareFilesCompleted /\ originalData = modifiedData
    /\ \E k \in SheetIndices : \E row \in RowsOf(k) : \E c1, c2 \in ColsOf(k) :
        /\ RawAt(SourceOriginal(k), row, c1) \in {Zero, EmptyStr}
        /\ RawAt(SourceOriginal(k), row, c2) \in {One, Str(<<"a">>)}

\* C6: validateStructures is valid exactly when the two name sequences are
\* identical position by position; with different counts the message states
\* both counts, otherwise it names the pair at the lowest differing index
ValidatorVerdict ==
    lastRun.outcome # "none" =>
        /\ lastRun.validation.isValid <=>
                originalData.SheetNames = modifiedData.SheetNames
        /\ Len(originalData.SheetNames) # Len(modifiedData.SheetNames) =>
                lastRun.validation.message =
                    CountMessage(Len(originalData.SheetNames),
                                 Len(modifiedData.SheetNames))
        /\ (/\ Len(originalData.SheetNames) = Len(modifiedData.SheetNames)
            /\ originalData.SheetNames # modifiedData.SheetNames) =>
                \E i \in SheetIndices :
                    /\ originalData.SheetNames[i] # modifiedData.SheetNames[i]
                    /\ \A j \in 1..(i - 1) :
                            originalData.SheetNames[j] = modifiedData.SheetNames[j]
                    /\ lastRun.validation.message =
                            NamesMessage(originalData.SheetNames[i],
                                         modifiedData.SheetNames[i])

\* ["A","B"] against ["B","A"]: rejected, naming "A" vs "B"
SwappedSheets ==
    /\ lastRun.outcome = "error"
    /\ originalData.SheetNames = <<"A", "B">>
    /\ modifiedData.SheetNames = <<"B", "A">>
    /\ ui.errorMessage = NamesMessage("A", "B")

\* C7: a run whose validation reports a mismatch calls neither compareFiles
\* nor generateReport, produces no comparison result and no report workbook,
\* and ends in the error state showing the validator's message
StructuralGate ==
    (/\ lastRun.outcome # "none"
     /\ ~validateStructures(originalData.SheetNames, modifiedData.SheetNames).isValid) =>
        /\ lastRun.outcome = "error"
        /\ ~lastRun.compareFilesCalled /\ ~lastRun.generateReportCalled
        /\ comparisonResult = Null /\ reportWorkbook = Null
        /\ differenceMap = <<>>
        /\ ui.error /\ ~ui.results /\ ~ui.download /\ ~ui.progress
        /\ ui.errorMessage =
                validateStructures(originalData.SheetNames,
                                   modifiedData.SheetNames).message

\* A run stopped by a different number of sheets
GateClosed ==
    /\ lastRun.outcome = "error" /\ ui.error
    /\ ui.errorMessage = CountMessage(1, 2)

\* The keys of the records of sheet k in columns minCol and above (0-based)
RecordKeys(k, minCol) ==
    {<<comparisonResult.differences[i].row - 1, comparisonResult.differences[i].col - 1>> :
        i \in {j \in 1..Len(comparisonResult.differences) :
                /\ comparisonResult.differences[j].sheet = SheetNameAt(k)
                /\ comparisonResult.differences[j].col - 1 >= minCol}}

\* C8 as stated: the change set of a sheet is the set of keys of its records
\* in columns >= 1; a difference in column 0 inserts no key
ChangeSetExcludesLabelColumn ==
    CompareFilesCompleted =>
        \A k \in SheetIndices : differenceMap[SheetNameAt(k)] = RecordKeys(k, 1)

\* C8 amended: the change set of a sheet is the set of keys of all its
\* records, those of column 0 included
ChangeSetIsRecordKeys ==
    CompareFilesCompleted =>
        \A k \in SheetIndices : differenceMap[SheetNameAt(k)] = RecordKeys(k, 0)

\* A difference in the label column, with its key in the change set
LabelColumnKey ==
    /\ CompareFilesCompleted
    /\ \E k \in SheetIndices : \E key \in differenceMap[SheetNameAt(k)] :
            key[2] = 0 /\ HasRecord(k, key[1], 0)

\* The position of a record's sheet in the workbook
SheetIndexOf(name) == CHOOSE k \in SheetIndices : SheetNameAt(k) = name

\* Record d comes strictly before record e: an earlier sheet, or the same
\* sheet and an earlier row, or the same row and an earlier column
StrictlyBefore(d, e) ==
    \/ SheetIndexOf(d.sheet) < SheetIndexOf(e.sheet)
    \/ /\ d.sheet = e.sheet
       /\ (d.row < e.row \/ (d.row = e.row /\ d.col < e.col))

\* C9: the records are in workbook sheet order and, within a sheet, strictly
\* ascending by row and then by column; no coordinate appears twice
DifferencesOrdered ==
    CompareFilesCompleted =>
        \A i, j \in 1..Len(comparisonResult.differences) :
            i < j => StrictlyBefore(comparisonResult.differences[i],
                                    comparisonResult.differences[j])

\* Two sheets of two rows and two columns, every coordinate different
EveryCoordinateDiffers ==
    /\ CompareFilesCompleted
    /\ Len(originalData.SheetNames) = 2
    /\ Len(comparisonResult.differences) = 8

\* The label the row tagging rule gives a row of sheet k
ExpectedLabel(k, row) ==
    IF \E col \in ColsOf(k) : col >= 1 /\ JudgedDifferent(k, row, col)
    THEN Str(<<"[CHANGED] ">> \o ToStr(SourceAt(SourceOriginal(k), row, 0)))
    ELSE SourceAt(SourceOriginal(k), row, 0)

\* C10: in both layouts the column-0 output cell of a data row is
\* "[CHANGED] " and the original label if a column >= 1 of the row is judged
\* different, and the original label unmodified otherwise
RowTagging ==
    CompareFilesCompleted =>
        \A k \in SheetIndices : \A row \in RowsOf(k) :
            ColsOf(k) # {} =>
                reportWorkbook.Sheets[SheetNameAt(k)][LegendRows + row + 1][1]
                    = ExpectedLabel(k, row)

(***************************************************************************)
(* Properties of the rendered report (SpecRender)                          *)
(***************************************************************************)
\* The cell objects of the two worksheets of sheet k at a coordinate
OriginalCellAt(k, row, col) == CellInfo(originalData.Sheets[SheetNameAt(k)], row, col)
ModifiedCellAt(k, row, col) == CellInfo(modifiedData.Sheets[SheetNameAt(k)], row, col)

\* The pair of source values at a coordinate
OriginalAt(k, row, col) == SourceAt(SourceOriginal(k), row, col)
ModifiedAt(k, row, col) == SourceAt(SourceModified(k), row, col)

\* The columns after the label column
DataColsOf(k) == ColsOf(k) \ {0}

\* The report's row for data row `row` of sheet k
OutputRow(k, row) == reportWorkbook.Sheets[SheetNameAt(k)][LegendRows + row + 1]

\* The pieces of s after the first piece equal to `piece`
AfterPiece(s, piece) ==
    SubSeq(s, (CHOOSE i \in 1..Len(s) :
                    s[i] = piece /\ \A j \in 1..(i - 1) : s[j] # piece) + 1,
           Len(s))

\* The rendered difference text of a coordinate, in the layout of the run
RenderedDifference(k, row, col) ==
    IF reportFormat = "single"
    THEN AfterPiece(OutputRow(k, row)[col + 1].s, ", Difference: ")
    ELSE OutputRow(k, row)[3 * col + 1].s

\* The value is classified as a percentage: by its cell, its column header
\* or its own magnitude, or because its formatted text shows a percent sign
ClassifiedPercentage(k, col, value, cell) ==
    \/ isPercentageCell(originalData, cell, SheetNameAt(k), col, value)
    \/ ShowsPercent(formatValue(originalData, value, cell, SheetNameAt(k), col))

OriginalIsPercentage(k, row, col) ==
    ClassifiedPercentage(k, col, OriginalAt(k, row, col), OriginalCellAt(k, row, col))
ModifiedIsPercentage(k, row, col) ==
    ClassifiedPercentage(k, col, ModifiedAt(k, row, col), ModifiedCellAt(k, row, col))

\* The numeric values of the pair, each in its own category
OriginalNumeric(k, row, col) ==
    getNumericValue(OriginalAt(k, row, col), OriginalIsPercentage(k, row, col))
ModifiedNumeric(k, row, col) ==
    getNumericValue(ModifiedAt(k, row, col), ModifiedIsPercentage(k, row, col))

\* Both sides parse to a number
BothNumeric(k, row, col) ==
    OriginalNumeric(k, row, col).t = "num" /\ ModifiedNumeric(k, row, col).t = "num"

\* Both sides are percentages, or both are plain
SameCategory(k, row, col) ==
    OriginalIsPercentage(k, row, col) <=> ModifiedIsPercentage(k, row, col)

\* modified - original
Delta(k, row, col) == Sub(ModifiedNumeric(k, row, col), OriginalNumeric(k, row, col))

\* The pair is not blank on both sides
NotBothBlank(k, row, col) ==
    ~(IsBlank(OriginalAt(k, row, col)) /\ IsBlank(ModifiedAt(k, row, col)))

\* The sign convention at one coordinate
SignAt(k, row, col) ==
    /\ Gt(Delta(k, row, col), NUMERIC_EPSILON) =>
            Head(RenderedDifference(k, row, col)) = "+"
    /\ Gt(Neg(Delta(k, row, col)), NUMERIC_EPSILON) =>
            Head(RenderedDifference(k, row, col)) = "-"
    /\ Le(MathAbs(Delta(k, row, col)), NUMERIC_EPSILON) =>
            RenderedDifference(k, row, col) =
                (IF OriginalIsPercentage(k, row, col) THEN <<"0%">> ELSE <<"0">>)

\* C11: for two numeric sides of the same category the difference text
\* starts with "+" for a delta above EPSILON, with "-" for a delta below
\* -EPSILON, and is "0" (or "0%") for a delta within EPSILON of zero
SignConvention ==
    CompareFilesCompleted =>
        \A k \in SheetIndices : \A row \in RowsOf(k) : \A col \in DataColsOf(k) :
            (BothNumeric(k, row, col) /\ SameCategory(k, row, col)) =>
                SignAt(k, row, col)

\* The rendered difference is a signed delta or 0: none of the N/A texts
IsDeltaText(text) ==
    text # <<"N/A (type mismatch)">> /\ text # <<"N/A (non-numeric)">>

\* C12: for a pair that is not blank on both sides the rendered difference
\* is "N/A (type mismatch)" exactly when both sides parse to a number and
\* exactly one is classified as percentage, and is a signed delta (or 0)
\* exactly when both parse to a number and are of the same category
TypeMismatchRule ==
    CompareFilesCompleted =>
        \A k \in SheetIndices : \A row \in RowsOf(k) : \A col \in DataColsOf(k) :
            NotBothBlank(k, row, col) =>
                /\ RenderedDifference(k, row, col) = <<"N/A (type mismatch)">>
                        <=> (BothNumeric(k, row, col) /\ ~SameCategory(k, row, col))
                /\ IsDeltaText(RenderedDifference(k, row, col))
                        <=> (BothNumeric(k, row, col) /\ SameCategory(k, row, col))

\* A text that is not blank and does not parse to a number
NonNumericText(value) ==
    IsStr(value) /\ Trim(value.s) # <<>> /\ ~ParsesNumeric(value)

\* C13: a number against a non-numeric text (42 against "text") is reported
\* different and rendered with the difference "N/A (non-numeric)", in both
\* layouts
NumberAgainstText ==
    CompareFilesCompleted =>
        \A k \in SheetIndices : \A row \in RowsOf(k) : \A col \in DataColsOf(k) :
            (/\ TypeofNumber(OriginalAt(k, row, col))
             /\ NonNumericText(ModifiedAt(k, row, col))) =>
                /\ JudgedDifferent(k, row, col)
                /\ RenderedDifference(k, row, col) = <<"N/A (non-numeric)">>

\* The cell of a matrix is blank: an empty string, null, or missing
RawBlank(data, row, col) == RawAt(data, row, col) \in {EmptyStr, NullV, Undef}

BothBlank(k, row, col) ==
    RawBlank(SourceOriginal(k), row, col) /\ RawBlank(SourceModified(k), row, col)

\* The output for the coordinate is empty: one empty string in the
\* single-cell layout, three in the multi-cell layout
RenderedEmpty(k, row, col) ==
    IF reportFormat = "single"
    THEN OutputRow(k, row)[col + 1] = EmptyStr
    ELSE \A j \in (3 * col - 1)..(3 * col + 1) : OutputRow(k, row)[j] = EmptyStr

\* C14: a coordinate with col >= 1 whose cells are blank on both sides is
\* rendered empty in either layout and has no DifferenceRecord
BlankPairs ==
    CompareFilesCompleted =>
        \A k \in SheetIndices : \A row \in RowsOf(k) : \A col \in DataColsOf(k) :
            BothBlank(k, row, col) =>
                RenderedEmpty(k, row, col) /\ ~HasRecord(k, row, col)

\* A cell missing from the original and empty in the modified sheet, next
\* to a label that changed
MissingAgainstEmpty ==
    /\ CompareFilesCompleted
    /\ \E k \in SheetIndices : \E row \in RowsOf(k) : \E col \in DataColsOf(k) :
        /\ RawAt(SourceOriginal(k), row, col) = Undef
        /\ RawAt(SourceModified(k), row, col) = EmptyStr
        /\ HasRecord(k, row, 0)

\* The values of a row of cells
ValuesOf(cells) == [c \in 1..Len(cells) |-> cells[c].v]

\* Row `row` of sheet k holds the Revenue rows
IsRevenueRow(k, row) ==
    /\ row + 1 <= Len(SourceOriginal(k)) /\ row + 1 <= Len(SourceModified(k))
    /\ SourceOriginal(k)[row + 1] = ValuesOf(RevenueOriginal)
    /\ SourceModified(k)[row + 1] = ValuesOf(RevenueModified)

\* "[CHANGED] Revenue", "Original Value: 100, Changed Value: 150,
\* Difference: +50", "Original Value: 10%, Changed Value: 12%, Difference: +2%"
RevenueOutput ==
    <<Str(<<"[CHANGED] ", "R", "e", "v", "e", "n", "u", "e">>),
      Str(<<"Original Value: ", "1", "0", "0", ", Changed Value: ", "1", "5", "0",
            ", Difference: ", "+", "5", "0">>),
      Str(<<"Original Value: ", "1", "0", "%", ", Changed Value: ", "1", "2", "%",
            ", Difference: ", "+", "2", "%">>)>>

\* C15: the single-cell layout renders the row ["Revenue", 100, "10%"]
\* against ["Revenue", 150, 0.12] as "[CHANGED] Revenue", "... Difference:
\* +50" and "Original Value: 10%, Changed Value: 12%, Difference: +2%"
RevenueScenario ==
    (CompareFilesCompleted /\ reportFormat = "single") =>
        \A k \in SheetIndices : \A row \in RowsOf(k) :
            IsRevenueRow(k, row) => OutputRow(k, row) = RevenueOutput

\* The rendered matrices of sheet k in the two layouts
SingleCellMatrix(k) ==
    generateReport(originalData, modifiedData, "single").Sheets[SheetNameAt(k)]
MultiCellMatrix(k) ==
    generateReport(originalData, modifiedData, "multi").Sheets[SheetNameAt(k)]

\* The single-cell text built from the three cells of the multi-cell layout
Combined(original, changed, difference) ==
    IF original = EmptyStr /\ changed = EmptyStr /\ difference = EmptyStr
    THEN EmptyStr
    ELSE Str(<<"Original Value: ">> \o ToStr(original)
                \o <<", Changed Value: ">> \o ToStr(changed)
                \o <<", Difference: ">> \o ToStr(difference))

\* The two layouts agree on data row `row` of sheet k
LayoutsAgreeOn(single, multi, cols) ==
    /\ single[1] = multi[1]
    /\ \A col \in cols :
            single[col + 1] =
                Combined(multi[3 * col - 1], multi[3 * col], multi[3 * col + 1])

\* C16: the single-cell output of a coordinate is "" when the multi-cell
\* output is three empty strings, and otherwise "Original Value: ..., Changed
\* Value: ..., Difference: ..." built from the three multi-cell values; the
\* column-0 label of every row is the same in both layouts
LayoutEquivalence ==
    CompareFilesCompleted =>
        /\ reportWorkbook =
                generateReport(originalData, modifiedData, reportFormat)
        /\ \A k \in SheetIndices : \A row \in RowsOf(k) :
                ColsOf(k) # {} =>
                    LayoutsAgreeOn(SingleCellMatrix(k)[LegendRows + row + 1],
                                   MultiCellMatrix(k)[LegendRows + row + 1],
                                   DataColsOf(k))

\* 150 against 100 in the multi-cell layout: a negative difference
NegativeDifferenceRendered ==
    /\ CompareFilesCompleted /\ reportFormat = "multi"
    /\ OriginalAt(1, 1, 1) = Num(150, 0) /\ ModifiedAt(1, 1, 1) = Num(100, 0)
    /\ OutputRow(1, 1)[4] = Str(<<"5", "0">>)

\* The number of fractional digits of the decimal m = i + f * 10^-9
FractionalDigits(m) ==
    IF m.f = 0 THEN 0
    ELSE 9 - (CHOOSE n \in 0..8 : m.f % Pow10(n) = 0 /\ m.f % Pow10(n + 1) # 0)

\* A number with absolute value in (0, 1] and at least 2 fractional digits
FractionOfTwoDecimals(value) ==
    /\ value.t = "num"
    /\ Gt(MathAbs(value), Zero) /\ Le(MathAbs(value), One)
    /\ FractionalDigits(MathAbs(value)) >= 2

\* The same, with an absolute value of at least 0.001
FractionFromOneThousandth(value) ==
    FractionOfTwoDecimals(value) /\ Ge(MathAbs(value), Num(0, 1000000))

\* isPercentageCell on a value of sheet k, column col, is true when the
\* format or the header signals a percentage, and otherwise exactly when
\* the value passes the heuristic
ChecksInOrder(k, col, value, cell, heuristic) ==
    IF PercentByFormat(cell) \/ PercentByHeader(originalData, SheetNameAt(k), col)
    THEN isPercentageCell(originalData, cell, SheetNameAt(k), col, value)
    ELSE isPercentageCell(originalData, cell, SheetNameAt(k), col, value)
            <=> heuristic

\* C17 as stated: without a format or header signal isPercentageCell is true
\* exactly for the numbers with absolute value in (0, 1] and at least 2
\* fractional digits; a format or header signal yields true
PercentageHeuristic ==
    CompareFilesCompleted =>
        \A k \in SheetIndices : \A row \in RowsOf(k) : \A col \in DataColsOf(k) :
            /\ ChecksInOrder(k, col, OriginalAt(k, row, col), OriginalCellAt(k, row, col),
                             FractionOfTwoDecimals(OriginalAt(k, row, col)))
            /\ ChecksInOrder(k, col, ModifiedAt(k, row, col), ModifiedCellAt(k, row, col),
                             FractionOfTwoDecimals(ModifiedAt(k, row, col)))

\* C17 amended: the heuristic also requires an absolute value of at least
\* 0.001
PercentageHeuristicFromOneThousandth ==
    CompareFilesCompleted =>
        \A k \in SheetIndices : \A row \in RowsOf(k) : \A col \in DataColsOf(k) :
            /\ ChecksInOrder(k, col, OriginalAt(k, row, col), OriginalCellAt(k, row, col),
                             FractionFromOneThousandth(OriginalAt(k, row, col)))
            /\ ChecksInOrder(k, col, ModifiedAt(k, row, col), ModifiedCellAt(k, row, col),
                             FractionFromOneThousandth(ModifiedAt(k, row, col)))

\* 0.12 against 0.0005 without format or header signal: the first is a
\* percentage, the second is not
HeuristicDecides ==
    /\ CompareFilesCompleted
    /\ OriginalAt(1, 1, 1) = Num(0, 120000000) /\ ModifiedAt(1, 1, 1) = Num(0, 500000)
    /\ ~PercentByFormat(OriginalCellAt(1, 1, 1)) /\ ~PercentByFormat(ModifiedCellAt(1, 1, 1))
    /\ ~PercentByHeader(originalData, "A", 1)
    /\ isPercentageCell(originalData, OriginalCellAt(1, 1, 1), "A", 1, OriginalAt(1, 1, 1))
    /\ ~isPercentageCell(originalData, ModifiedCellAt(1, 1, 1), "A", 1, ModifiedAt(1, 1, 1))

\* A text: a string that is not blank and that getNumericValue does not
\* take for a number
PlainText(value) ==
    IsStr(value) /\ Trim(value.s) # <<>> /\ getNumericValue(value, FALSE) = NullV

\* formatValue leaves the value of sheet k, column col, unchanged
Unformatted(k, col, value, cell) ==
    formatValue(originalData, value, cell, SheetNameAt(k), col) = value

\* C18: formatValue returns a text unchanged, whatever the number format of
\* its cell and the header of its column
TextUnchanged ==
    CompareFilesCompleted =>
        \A k \in SheetIndices : \A row \in RowsOf(k) : \A col \in DataColsOf(k) :
            /\ PlainText(OriginalAt(k, row, col)) =>
                    Unformatted(k, col, OriginalAt(k, row, col), OriginalCellAt(k, row, col))
            /\ PlainText(ModifiedAt(k, row, col)) =>
                    Unformatted(k, col, ModifiedAt(k, row, col), ModifiedCellAt(k, row, col))

(***************************************************************************)
(* Properties of the Value Classifier (SpecCell)                           *)
(***************************************************************************)
\* No float parses from the trimmed text t: not from t without its trailing
\* "%", not from t without its commas
NoFloatIn(t) ==
    /\ EndsWith(t, "%") => ParseFloat(DropLast(t)).t = "nan"
    /\ ParseFloat(RemoveCommas(t)).t = "nan"

\* getNumericValue on a string gives a number or null, and null when no float
\* parses from it
NumberOrNull(value) ==
    IsStr(value) =>
        /\ getNumericValue(value, FALSE).t \in {"num", "null"}
        /\ NoFloatIn(Trim(value.s)) => getNumericValue(value, FALSE) = NullV

\* C19: getNumericValue never returns NaN for a string, and returns null for
\* every string from which no float parses ("%" and blank strings included)
NeverNaN ==
    cellOut.done => NumberOrNull(cellArgs.a) /\ NumberOrNull(cellArgs.b)


(***************************************************************************)
(* Properties of the application (Spec)                                    *)
(***************************************************************************)
\* What a run that passes validateStructures produces from the two loaded
\* workbooks
ProducedByThisRun ==
    /\ comparisonResult' =
            compareFiles(<<>>, originalFile, modifiedFile,
                         originalData, modifiedData).comparisonResult
    /\ differenceMap' =
            compareFiles(<<>>, originalFile, modifiedFile,
                         originalData, modifiedData).differenceMap
    /\ reportWorkbook' = generateReport(originalData, modifiedData, reportFormat)

\* Nothing is held
ResultsEmpty ==
    /\ comparisonResult' = Null
    /\ differenceMap' = <<>>
    /\ reportWorkbook' = Null

\* C20: no result crosses comparison runs.  When an invocation of
\* performComparison has finished, comparisonResult, differenceMap and
\* reportWorkbook hold what this invocation produced from the two loaded
\* workbooks if it succeeded, and are empty if it failed; they never hold
\* data of an earlier run.
NoResultCrossesRuns ==
    [][performComparison =>
        IF validateStructures(originalData.SheetNames, modifiedData.SheetNames).isValid
        THEN ProducedByThisRun
        ELSE ResultsEmpty]_vars

(***************************************************************************)
(* Properties of the report against the change set (SpecRun)               *)
(***************************************************************************)
\* The column-0 output cell of a data row of sheet k
LabelAt(k, row) == reportWorkbook.Sheets[SheetNameAt(k)][LegendRows + row + 1][1]

\* The cell is a string that starts with the literal "[CHANGED] "
CarriesChangedPrefix(cell) ==
    IsStr(cell) /\ cell.s # <<>> /\ Head(cell.s) = "[CHANGED] "

\* The change set of sheet k has a key of that row in a column >= 1
ChangeSetHasRow(k, row) ==
    \E key \in differenceMap[SheetNameAt(k)] : key[1] = row /\ key[2] >= 1

\* C21: after a successful run, for every sheet and every row of the
\* bounding box, the output label carries the "[CHANGED] " prefix if and
\* only if differenceMap of that sheet holds a key "row-col" with col >= 1
\* of that row
RowTagAgreesWithChangeSet ==
    CompareFilesCompleted =>
        \A k \in SheetIndices : \A row \in RowsOf(k) :
            ColsOf(k) # {} =>
                (CarriesChangedPrefix(LabelAt(k, row)) <=> ChangeSetHasRow(k, row))

\* A sheet with a tagged row and with a row whose only key is that of the
\* label column, which is not tagged
TaggedAndLabelOnlyRows ==
    /\ CompareFilesCompleted
    /\ \E k \in SheetIndices : \E r1, r2 \in RowsOf(k) :
        /\ CarriesChangedPrefix(LabelAt(k, r1)) /\ ChangeSetHasRow(k, r1)
        /\ ~CarriesChangedPrefix(LabelAt(k, r2))
        /\ <<r2, 0>> \in differenceMap[SheetNameAt(k)]

(***************************************************************************)
(* Properties of the formatted values (SpecRender)                         *)
(***************************************************************************)
\* A negative number classified as a percentage
NegativePercentageNumber(k, col, value, cell) ==
    /\ value.t = "num" /\ IsNegative(value)
    /\ isPercentageCell(originalData, cell, SheetNameAt(k), col, value)

\* A string that ends in "%" after a negative number
NegativePercentageString(value) ==
    /\ IsStr(value) /\ EndsWith(Trim(value.s), "%")
    /\ ~IsNaNStr(DropLast(Trim(value.s)))
    /\ ParseFloat(DropLast(Trim(value.s))).t = "num"
    /\ IsNegative(ParseFloat(DropLast(Trim(value.s))))

\* The display string is "-", the formatted magnitude and "%"
ShowsSignedPercent(display, magnitude) ==
    display = Str(<<"-">> \o formatNumber(magnitude) \o <<"%">>)

\* formatValue keeps the sign of the value of sheet k, column col, if it is
\* a negative percentage
SignKept(k, col, value, cell) ==
    /\ NegativePercentageNumber(k, col, value, cell) =>
            ShowsSignedPercent(formatValue(originalData, value, cell, SheetNameAt(k), col),
                               MathAbs(RoundTo2(Times100(value))))
    /\ NegativePercentageString(value) =>
            ShowsSignedPercent(formatValue(originalData, value, cell, SheetNameAt(k), col),
                               MathAbs(ParseFloat(DropLast(Trim(value.s)))))

\* C22: formatValue preserves the sign of percentages.  For every negative
\* percentage value, a number classified as percentage or a string ending
\* in "%", the display string is "-" followed by the formatted magnitude
\* and "%"
PercentageSignPreserved ==
    CompareFilesCompleted =>
        \A k \in SheetIndices : \A row \in RowsOf(k) : \A col \in DataColsOf(k) :
            /\ SignKept(k, col, OriginalAt(k, row, col), OriginalCellAt(k, row, col))
            /\ SignKept(k, col, ModifiedAt(k, row, col), ModifiedCellAt(k, row, col))

(***************************************************************************)
(* Properties of the bounding box (SpecRun)                                *)
(***************************************************************************)
\* The lengths of the rows of both matrices of sheet k
RowLengths(k) ==
    {Len(SourceOriginal(k)[r]) : r \in 1..Len(SourceOriginal(k))}
        \cup {Len(SourceModified(k)[r]) : r \in 1..Len(SourceModified(k))}

\* max(number of rows of the two matrices)
ExpectedRows(k) ==
    IF Len(SourceOriginal(k)) >= Len(SourceModified(k))
    THEN Len(SourceOriginal(k)) ELSE Len(SourceModified(k))

\* max(longest row of either matrix)
ExpectedCols(k) == CHOOSE n \in RowLengths(k) : \A m \in RowLengths(k) : m <= n

\* The records of sheet k at a coordinate (0-based)
RecordsOf(k, row, col) ==
    {i \in 1..Len(comparisonResult.differences) :
        /\ comparisonResult.differences[i].sheet = SheetNameAt(k)
        /\ comparisonResult.differences[i].row = row + 1
        /\ comparisonResult.differences[i].col = col + 1}

\* The loop body ran once at the coordinate: one record if the two values
\* it reads differ, none otherwise
VisitedOnce(k, row, col) ==
    Cardinality(RecordsOf(k, row, col)) =
        (IF valuesAreDifferent(originalValueAt(SourceOriginal(k), row, col),
                               modifiedValueAt(SourceModified(k), row, col))
         THEN 1 ELSE 0)

\* The cells of a data row over maxCols columns, in the layout of the run
CellsPerRow(maxCols) ==
    IF reportFormat = "single" THEN maxCols ELSE 1 + 3 * (maxCols - 1)

\* The box of sheet k in the records and in the rendered sheet
SameBoxAt(k) ==
    /\ Len(reportWorkbook.Sheets[SheetNameAt(k)]) = LegendRows + ExpectedRows(k)
    /\ \A row \in 0..(ExpectedRows(k) - 1) :
        /\ Len(OutputRow(k, row)) = CellsPerRow(ExpectedCols(k))
        /\ \A col \in 0..(ExpectedCols(k) - 1) : VisitedOnce(k, row, col)
    /\ \A i \in 1..Len(comparisonResult.differences) :
        comparisonResult.differences[i].sheet = SheetNameAt(k) =>
            /\ comparisonResult.differences[i].row \in 1..ExpectedRows(k)
            /\ comparisonResult.differences[i].col \in 1..ExpectedCols(k)

\* C23: aligner and renderer scan the same bounding box.  For each sheet,
\* with maxRows the larger number of rows of the two matrices and maxCols
\* the longest row of either, compareFiles visits every coordinate of the
\* box exactly once and none outside, and the rendered sheet has exactly
\* maxRows data rows after the legend block, each of maxCols cells in the
\* single-cell layout and of 1 + 3*(maxCols-1) cells in the multi-cell one
SameBoundingBox ==
    CompareFilesCompleted => \A k \in SheetIndices : SameBoxAt(k)

\* The original has fewer rows and longer rows than the modified, rendered
\* in the multi-cell layout
MatricesOfUnequalShape ==
    /\ CompareFilesCompleted /\ reportFormat = "multi"
    /\ \E k \in SheetIndices :
        /\ Len(SourceOriginal(k)) = 1 /\ Len(SourceModified(k)) = 2
        /\ ExpectedCols(k) = 3
        /\ Len(SourceModified(k)[1]) = 1
        /\ Len(OutputRow(k, 1)) = 7

(***************************************************************************)
(* Properties of the report against the records (SpecRender)               *)
(***************************************************************************)
\* The rendered difference text says the two values are equal
RenderedAsEqual(k, row, col) ==
    RenderedDifference(k, row, col) \in {<<"0">>, <<"0%">>}

\* C24: verdict and rendered difference agree.  After a successful run, for
\* every coordinate with col >= 1 whose two values are rendered in the same
\* numeric category (both plain numeric or both percentage), the rendered
\* difference text is "0" or "0%" if and only if compareFiles recorded no
\* DifferenceRecord for the coordinate
VerdictMatchesRendering ==
    CompareFilesCompleted =>
        \A k \in SheetIndices : \A row \in RowsOf(k) : \A col \in DataColsOf(k) :
            (NotBothBlank(k, row, col) /\ BothNumeric(k, row, col)
                    /\ SameCategory(k, row, col)) =>
                (RenderedAsEqual(k, row, col) <=> ~HasRecord(k, row, col))

(***************************************************************************)
(* Properties of the records against the report (SpecRun)                  *)
(***************************************************************************)
\* The label of the row of record d in the rendered sheet of its sheet
LabelOfRecord(d) == LabelAt(SheetIndexOf(d.sheet), d.row - 1)

\* C25 as stated: after a successful run, for every DifferenceRecord the
\* column-0 label of its row in the rendered sheet carries the "[CHANGED] "
\* prefix
EveryDifferenceTagged ==
    CompareFilesCompleted =>
        \A i \in 1..Len(comparisonResult.differences) :
            CarriesChangedPrefix(LabelOfRecord(comparisonResult.differences[i]))

\* C25 amended: after a successful run, for every DifferenceRecord outside
\* the label column (record col >= 2, the columns >= 1 counted from 0) the
\* column-0 label of its row carries the "[CHANGED] " prefix; a record of
\* the label column alone does not tag its row
EveryDataDifferenceTagged ==
    CompareFilesCompleted =>
        /\ \A i \in 1..Len(comparisonResult.differences) :
            comparisonResult.differences[i].col >= 2 =>
                CarriesChangedPrefix(LabelOfRecord(comparisonResult.differences[i]))
        /\ \A k \in SheetIndices : \A row \in RowsOf(k) :
            (ColsOf(k) # {} /\ \A col \in DataColsOf(k) : ~HasRecord(k, row, col)) =>
                ~CarriesChangedPrefix(LabelAt(k, row))

\* A record of the label column in an untagged row, and a record of a data
\* column in a tagged row
LabelRecordUntagged ==
    /\ CompareFilesCompleted
    /\ \E i, j \in 1..Len(comparisonResult.differences) :
        /\ comparisonResult.differences[i].col = 1
        /\ ~CarriesChangedPrefix(LabelOfRecord(comparisonResult.differences[i]))
        /\ comparisonResult.differences[j].col >= 2
        /\ CarriesChangedPrefix(LabelOfRecord(comparisonResult.differences[j]))

(***************************************************************************)
(* Properties of the page and of the file slots (Spec)                     *)
(***************************************************************************)
\* C26: error and results are never shown together.  In every reachable
\* state, whatever the interleaving of compare clicks, file selections,
\* completed reads and completion timers, the results section and the
\* download button are hidden whenever the error section is visible
ErrorExcludesResults ==
    ui.error => (~ui.results /\ ~ui.download)

\* The stored file and workbook of a slot
SlotFile(fileType) == IF fileType = "original" THEN originalFile ELSE modifiedFile
SlotData(fileType) == IF fileType = "original" THEN originalData ELSE modifiedData

\* No read for the slot is pending
ReadsCompleted(fileType) == \A pending \in pendingReads : pending.fileType # fileType

\* The slot holds the valid, readable file last selected for it
HoldsLastSelection(fileType) ==
    (/\ lastSelection[fileType] # Null
     /\ readExcelFile(lastSelection[fileType]).resolved) =>
        /\ SlotFile(fileType) = lastSelection[fileType]
        /\ SlotData(fileType) = lastSelection[fileType].workbook

\* The file and the workbook of the slot belong to the same file
SlotConsistent(fileType) ==
    IF SlotFile(fileType) = Null THEN SlotData(fileType) = Null
    ELSE SlotData(fileType) = SlotFile(fileType).workbook

\* C27: last selection wins.  For each slot, once all pending reads have
\* completed, the stored file and workbook are those of the most recently
\* selected valid file of the slot, in whatever order the reads completed;
\* and the file and the workbook of a slot always belong to the same file
LastSelectionWins ==
    \A fileType \in FileTypes :
        /\ ReadsCompleted(fileType) => HoldsLastSelection(fileType)
        /\ SlotConsistent(fileType)

(***************************************************************************)
(* Properties of the percentage branch of the Cell Differ (SpecCell)       *)
(***************************************************************************)
\* The verdict of valuesAreDifferent with its percentage branch left out:
\* identical values, else the plain numeric comparison on the unscaled
\* values, else the trimmed strings
VerdictWithoutPercentageBranch(a, b) ==
    IF StrictEq(a, b) THEN FALSE
    ELSE IF getNumericValue(a, FALSE) # NullV /\ getNumericValue(b, FALSE) # NullV
        THEN ExceedsEpsilon(getNumericValue(a, FALSE), getNumericValue(b, FALSE))
    ELSE Trim(ToStr(a)) # Trim(ToStr(b))

\* extractPercentageValue returns non-null on both sides
BothPercentages(a, b) ==
    extractPercentageValue(a) # NullV /\ extractPercentageValue(b) # NullV

\* C28: the percentage branch of valuesAreDifferent is never decisive.  For
\* every pair on which extractPercentageValue returns non-null on both
\* sides, getNumericValue(value, false) is non-null on both sides as well,
\* so that the verdict of every pair is that of the plain numeric comparison
\* on the unscaled values or of the trimmed-string comparison
PercentageBranchNeverDecisive ==
    cellOut.done =>
        /\ BothPercentages(cellArgs.a, cellArgs.b) =>
            /\ getNumericValue(cellArgs.a, FALSE) # NullV
            /\ getNumericValue(cellArgs.b, FALSE) # NullV
        /\ cellOut.verdict = VerdictWithoutPercentageBranch(cellArgs.a, cellArgs.b)

\* 0.055 against "5.5%": percentages on both sides, judged different by the
\* plain numeric comparison of 0.055 and 5.5
FractionAgainstPercentString ==
    /\ cellOut.done /\ cellOut.verdict
    /\ cellArgs.a = Num(0, 55000000)
    /\ cellArgs.b = S4("5", ".", "5", "%")
    /\ BothPercentages(cellArgs.a, cellArgs.b)

====
